---- MODULE Spec2Model ----
(***************************************************************************)
(* A model of the delivery subsystem of mcp-analytics-ts: the retry engine *)
(* (RetryHandler.execute), the retryability classifier (isRetryableError), *)
(* the transport (APIClient.sendEvent) and the tracking orchestrator       *)
(* (MCPTracker.track / wrap).                                              *)
(*                                                                         *)
(* JavaScript values are modelled as follows.  An object is a record whose *)
(* DOMAIN holds the properties that are present: an Error without a status *)
(* has no "status" field.  A message is the sequence of its words, and     *)
(* String.prototype.includes('fetch') finds the word "fetch" in it.        *)
(* An optional value (undefined or a value) is a sequence of length 0 or   *)
(* 1.  One await is one step: an action runs a handler from one           *)
(* suspension point to the next; a delivery attempt (the fetch and the    *)
(* reading of the response) is one step.                                  *)
(*                                                                         *)
(* SpecRetry drives a RetryHandler directly with an arbitrary operation.   *)
(* Spec is one tracker and one call on it: track, a convenience method, or *)
(* a wrapped function.  SpecConfig constructs a tracker from a supplied    *)
(* config and calls track on it.  SpecMerge is one call of mergeMetadata.  *)
(***************************************************************************)
EXTENDS Integers, Sequences, FiniteSets, TLC

\* ------------------------------------------------------------------ bounds

\* Largest retry count given to a RetryHandler that is driven directly.
MaxRetries == 7

\* HTTP statuses an error object may carry (0 is a falsy status).
Statuses == {0, 399, 400, 401, 429, 499, 500, 503}

\* error.name of the errors an operation may throw.
ErrorNames == {"Error", "TypeError"}

\* error.message of the errors an operation may throw, word by word.
Messages == {<<"Server", "Error">>, <<"fetch", "failed">>}

\* Every error an arbitrary operation handed to execute may throw.
OpErrors ==
  [name : ErrorNames, message : Messages]
    \cup [name : ErrorNames, message : Messages, status : Statuses]

\* Values an arbitrary operation may resolve to.
OpValues == {"success", "result"}

\* What Date.now() reads when the caller makes its call (ms).
StartClock == 1000

\* Largest retry count a tracker is configured with.
MaxTrackerRetries == 2

\* Largest retry count of the tracker whose calls are followed to their end.
MaxLiveRetries == 1

\* config.timeout: the default, in ms.
Timeout == 5000

\* config.retries: the default.
Retries == 3

\* config.endpoint: the default.
DEFAULT_ENDPOINT == "https://dersubrqatbvvmzwkmsj.supabase.co/functions/v1/track-mcp-event"

\* The values a caller may state for each optional field of the config.
\* The empty function is the field left out.
EndpointChoices == {<<>>, [endpoint |-> ""], [endpoint |-> "https://custom.example/track"]}
TimeoutChoices == {<<>>, [timeout |-> 0], [timeout |-> 1000]}
RetriesChoices == {<<>>, [retries |-> 0 - 1], [retries |-> 0], [retries |-> 1]}
DebugChoices == {<<>>, [debug |-> FALSE], [debug |-> TRUE]}

\* HTTP statuses of the non-2xx responses the endpoint may send.
ErrorStatuses == {400, 401, 429, 500}

\* What response.text() may give for a non-2xx response: a rejection (the
\* empty sequence), the empty text, or a text, word by word.
ErrorBodies == {<<>>, << <<>> >>, << <<"Invalid", "payload">> >>, << <<"cannot", "fetch", "record">> >>}

\* What response.json() may give for a 2xx response: a rejection (the empty
\* sequence) or the acknowledgement.
Acks == {<<>>, <<[ok |-> TRUE]>>, <<[ok |-> FALSE]>>}

\* Everything one call of fetch may end in: a rejection with a network
\* error, an abort by the timeout timer, or a response.
NetOutcomes ==
  [kind : {"network", "abort"}]
    \cup [kind : {"response"}, status : ErrorStatuses, body : ErrorBodies]
    \cup [kind : {"response"}, status : {200}, json : Acks]

EventTypes == {"invocation", "success", "failure"}

\* The arguments of a direct call of track or of a convenience method: the
\* metadata is left out, the empty object or an object; the duration is
\* left out or 0.
TrackArgs ==
  [toolName : {"test_tool"}, eventType : EventTypes,
   metadata : {<<>>, << <<>> >>, <<[foo |-> "bar"]>>}, durationMs : {<<>>, <<0>>}]

\* The arguments of a wrapped call: params and meta (an optional value).
WrapArgs == [params : {[input |-> "test"]}, meta : {<<[requestId |-> "r1"]>>}]

\* The options objects a caller may hand to wrap: each of trackInvocation
\* and rethrowErrors is omitted or false, or both are stated as true.
WrapOptions ==
  UNION {[D -> {FALSE}] : D \in SUBSET {"trackInvocation", "rethrowErrors"}}
    \cup {[trackInvocation |-> TRUE, rethrowErrors |-> TRUE]}

\* What a caller-supplied extractor does: it is not supplied, it returns
\* its metadata, or it throws.
ExtractorBehaviours == {"absent", "returns", "throws"}

\* The metadata the three extractors return.
InputMetadata == [a |-> 1, b |-> 2]
OutputMetadata == [b |-> 3, c |-> 4]
ErrorMetadata == [b |-> 5, e |-> 6]

\* Largest number of fragments handed to mergeMetadata in a direct call.
MaxFragments == 3

\* The fragments handed to mergeMetadata in a direct call: undefined (the
\* empty sequence) or an object; n holds a nested object.
Fragments ==
  {<<>>, <<[a |-> 1, b |-> 2]>>, <<[b |-> 3, c |-> 4]>>, <<[x |-> 1]>>,
   <<[n |-> [p |-> 1]]>>, <<[n |-> [q |-> 2], a |-> 7]>>}

\* What the wrapped tool may resolve to, what it may reject with, and how
\* long it may run (ms).
FnValues == {[data |-> "result"], [items |-> 3]}
FnErrors == {[name |-> "Error", message |-> <<"Test", "error">>],
             [name |-> "Error", message |-> <<"boom">>, status |-> 401]}
FnLatencies == {50}

\* ------------------------------------------------------------ pure helpers

Min(a, b) == IF a <= b THEN a ELSE b

RECURSIVE Pow2(_)
Pow2(n) == IF n <= 0 THEN 1 ELSE 2 * Pow2(n - 1)

\* message?.includes('fetch')
IncludesFetch(error) ==
  /\ "message" \in DOMAIN error
  /\ \E i \in 1..Len(error.message) : error.message[i] = "fetch"

\* A mutant of isRetryableError: the client-error range starts after 400.
isRetryableError_OffByOne(error) ==
  IF error.name = "TypeError" \/ IncludesFetch(error) THEN TRUE
  ELSE IF "status" \in DOMAIN error /\ error.status # 0
    THEN IF error.status > 400 /\ error.status < 500 THEN FALSE
         ELSE IF error.status >= 500 THEN TRUE
         ELSE TRUE
    ELSE TRUE

\* utils.ts isRetryableError
isRetryableError(error) ==
  IF error.name = "TypeError" \/ IncludesFetch(error) THEN TRUE
  ELSE IF "status" \in DOMAIN error /\ error.status # 0
    THEN IF error.status >= 400 /\ error.status < 500 THEN FALSE
         ELSE IF error.status >= 500 THEN TRUE
         ELSE TRUE
    ELSE TRUE

\* A mutant of BackoffDelay: the cap is missing.
BackoffDelay_NoCap(n) == 100 * Pow2(n)

\* Math.min(100 * Math.pow(2, attempt), 3000)
BackoffDelay(n) == Min(100 * Pow2(n), 3000)

\* { ...a, ...b }
Spread(a, b) == [k \in DOMAIN a \cup DOMAIN b |-> IF k \in DOMAIN b THEN b[k] ELSE a[k]]

\* The config objects a caller may hand to the constructor: the apiKey and
\* any of the optional fields.
SuppliedConfigs ==
  {Spread(Spread(Spread(Spread([apiKey |-> "test-key"], e), t), r), d) :
     e \in EndpointChoices, t \in TimeoutChoices, r \in RetriesChoices, d \in DebugChoices}

\* A mutant of Constructor: the defaults are filled in with ||, so a
\* supplied falsy value is replaced as well.
Constructor_FalsyDefaulted(c) ==
  [apiKey |-> c.apiKey,
   endpoint |-> IF "endpoint" \in DOMAIN c /\ c.endpoint # "" THEN c.endpoint ELSE DEFAULT_ENDPOINT,
   timeout |-> IF "timeout" \in DOMAIN c /\ c.timeout # 0 THEN c.timeout ELSE Timeout,
   retries |-> IF "retries" \in DOMAIN c /\ c.retries # 0 THEN c.retries ELSE Retries,
   debug |-> IF "debug" \in DOMAIN c /\ c.debug THEN c.debug ELSE FALSE]

\* The constructor's this.config (tracker.ts lines 12-18): endpoint is
\* defaulted with || (an absent or empty one), the others with ?? (an
\* absent one).
Constructor(c) ==
  [apiKey |-> c.apiKey,
   endpoint |-> IF "endpoint" \in DOMAIN c /\ c.endpoint # "" THEN c.endpoint ELSE DEFAULT_ENDPOINT,
   timeout |-> IF "timeout" \in DOMAIN c THEN c.timeout ELSE Timeout,
   retries |-> IF "retries" \in DOMAIN c THEN c.retries ELSE Retries,
   debug |-> IF "debug" \in DOMAIN c THEN c.debug ELSE FALSE]

\* ------------------------------------------------------------------- state

VARIABLES
  entry,       \* the operation the caller invoked: "execute", "track", "wrap", ...
  fragments,   \* the arguments of a direct call of mergeMetadata
  merged,      \* what that call returned (empty before it returns)
  callerConfigs, \* concurrent calls: each caller's config object, as it is now
  trackers,    \* concurrent calls: this.config of each tracker instance
  frames,      \* concurrent calls: the locals of each sendEvent call in progress
  logged,      \* concurrent calls: how many lines debugLog has written to the console
  supplied,    \* the config object handed to the tracker's constructor
  config,      \* this.config, the resolved config (empty before construction)
  maxRetries,  \* RetryHandler.maxRetries (config.retries)
  now,         \* Date.now(), in ms
  xpc,         \* position in RetryHandler.execute
  attempt,     \* execute's loop counter
  lastError,   \* execute's lastError (a sequence: empty when undefined)
  retryable,   \* the value isRetryableError returned for the error just caught
  calls,       \* how many times this execute has invoked the operation
  opRes,       \* how the operation's latest call settled, as execute's await saw it
  delays,      \* the delays this execute has passed to setTimeout, in order
  xres,        \* how execute settled: pending, returned a value, threw an error
  args,        \* the arguments of a direct track call
  tpc,         \* position in MCPTracker.track
  payload,     \* track's payload (a sequence: empty outside track)
  tres,        \* how track settled
  fetchLog,    \* every call of fetch so far: the payload sent, and whether the attempt delivered it
  tracked,     \* the event type of every call of track so far
  aborts,      \* how many times a timeout timer has fired and called controller.abort()
  options,     \* wrap's options trackInvocation and rethrowErrors
  wpc,         \* position in the wrapped function
  startTime,   \* the wrapped call's startTime
  settledAt,   \* Date.now() when the try block was left: fn settled
  invocationMetadata, \* the wrapped call's invocationMetadata (empty when undefined)
  fnRes,       \* how fn settled
  fnCalls,     \* how many times the wrapped call has invoked fn
  fnArgs,      \* the arguments of each of these invocations
  wargs,       \* the arguments (params, meta) of the wrapped call
  caught,      \* the error of the wrapped call's catch block (empty outside it)
  extractorErrors, \* the extractors whose exception the wrapped call has caught
  extracted,   \* what each extractor that returned has returned to the wrapped call
  wres         \* how the wrapped call settled for its caller

xvars == <<xpc, attempt, lastError, retryable, calls, opRes, delays, xres>>
tvars == <<args, tpc, payload, tres>>
wvars == <<options, wargs, wpc, startTime, settledAt, invocationMetadata, fnRes, fnCalls, fnArgs, caught, extractorErrors, extracted, wres>>
mvars == <<fragments, merged>>
cvars == <<callerConfigs, trackers, frames, logged>>
vars == <<entry, mvars, cvars, supplied, config, maxRetries, now, xvars, tvars, fetchLog, tracked, aborts, wvars>>

Pending == [kind |-> "pending"]
Returned(v) == [kind |-> "returned", value |-> v]
Threw(e) == [kind |-> "threw", error |-> e]

\* ---------------------------------------------------- RetryHandler.execute

\* A mutant of ExecuteCatch: the give-up test is off by one, so the last
\* retry is never made.
ExecuteCatch_OneShort(error) ==
  /\ lastError' = <<error>>
  /\ retryable' = <<isRetryableError(error)>>
  /\ IF ~isRetryableError(error) \/ attempt + 1 >= maxRetries
       THEN /\ xres' = Threw(error)
            /\ xpc' = "done"
            /\ delays' = delays
       ELSE /\ delays' = Append(delays, BackoffDelay(attempt))
            /\ xpc' = "sleep"
            /\ xres' = xres

\* The catch block of execute (lines 18-37), up to the await of the timer.
ExecuteCatch(error) ==
  /\ lastError' = <<error>>
  /\ retryable' = <<isRetryableError(error)>>
  /\ IF ~isRetryableError(error)
       THEN /\ xres' = Threw(error)
            /\ xpc' = "done"
            /\ delays' = delays
       ELSE IF attempt = maxRetries
         THEN /\ xres' = Threw(error)
              /\ xpc' = "done"
              /\ delays' = delays
         ELSE /\ delays' = Append(delays, BackoffDelay(attempt))
              /\ xpc' = "sleep"
              /\ xres' = xres

\* A mutant of ExecuteSettle: the attempt's value is kept but the loop is
\* not left, so a successful attempt is followed by a delay and another
\* attempt until the attempts are used up.
ExecuteSettle_NoEarlyReturn(outcome) ==
  /\ opRes' = outcome
  /\ IF outcome.kind = "ok"
       THEN IF attempt = maxRetries
              THEN /\ xres' = Returned(outcome.value)
                   /\ xpc' = "done"
                   /\ UNCHANGED <<lastError, retryable, delays>>
              ELSE /\ delays' = Append(delays, BackoffDelay(attempt))
                   /\ xpc' = "sleep"
                   /\ UNCHANGED <<lastError, retryable, xres>>
       ELSE ExecuteCatch(outcome.error)

\* What execute does with the settled operation (lines 16-19): return its
\* value, or catch its error.
ExecuteSettle(outcome) ==
  /\ opRes' = outcome
  /\ IF outcome.kind = "ok"
       THEN /\ xres' = Returned(outcome.value)
            /\ xpc' = "done"
            /\ UNCHANGED <<lastError, retryable, delays>>
       ELSE ExecuteCatch(outcome.error)

\* execute is entered: let lastError, attempt = 0.
ExecuteBegin ==
  /\ xpc' = "loop"
  /\ attempt' = 0
  /\ lastError' = <<>>
  /\ retryable' = <<>>
  /\ calls' = 0
  /\ opRes' = Pending
  /\ delays' = <<>>
  /\ xres' = Pending

\* One iteration of execute's loop with an arbitrary operation: the loop
\* test, the call of fn and the handling of its outcome.
ExecuteAttempt ==
  /\ entry = "execute"
  /\ xpc = "loop"
  /\ attempt <= maxRetries
  /\ calls' = calls + 1
  /\ \E outcome \in [kind : {"ok"}, value : OpValues] \cup [kind : {"error"}, error : OpErrors] :
       ExecuteSettle(outcome)
  /\ UNCHANGED <<entry, mvars, cvars, supplied, config, maxRetries, now, attempt, tvars, fetchLog, tracked, aborts, wvars>>

\* The loop test fails: the throw after the loop (line 42).
ExecuteFallThrough ==
  /\ xpc = "loop"
  /\ ~(attempt <= maxRetries)
  /\ xres' = Threw(IF lastError # <<>> THEN lastError[1]
                   ELSE [name |-> "Error", message |-> <<"Unexpected", "error", "in", "retry", "handler">>])
  /\ xpc' = "done"
  /\ UNCHANGED <<entry, mvars, cvars, supplied, config, maxRetries, now, attempt, lastError, retryable, calls, opRes, delays, tvars, fetchLog, tracked, aborts, wvars>>

\* A mutant of ExecuteBackoff: the loop does not count the attempt.
ExecuteBackoff_NoIncrement ==
  /\ xpc = "sleep"
  /\ now' = now + delays[Len(delays)]
  /\ attempt' = attempt
  /\ xpc' = "loop"
  /\ UNCHANGED <<entry, mvars, cvars, supplied, config, maxRetries, lastError, retryable, calls, opRes, delays, xres, tvars, fetchLog, tracked, aborts, wvars>>

\* A mutant of ExecuteBackoff: the promise of the delay is never resolved.
ExecuteBackoff_NeverResolves ==
  /\ xpc = "sleep"
  /\ FALSE
  /\ UNCHANGED vars

\* The backoff timer fires after its delay: attempt++ and the next iteration.
ExecuteBackoff ==
  /\ xpc = "sleep"
  /\ now' = now + delays[Len(delays)]
  /\ attempt' = attempt + 1
  /\ xpc' = "loop"
  /\ UNCHANGED <<entry, mvars, cvars, supplied, config, maxRetries, lastError, retryable, calls, opRes, delays, xres, tvars, fetchLog, tracked, aborts, wvars>>

\* ------------------------------------------------- the retry engine alone

InitRetry ==
  /\ entry = "execute"
  /\ fragments = <<>>
  /\ merged = <<>>
  /\ callerConfigs = <<>>
  /\ trackers = <<>>
  /\ frames = <<>>
  /\ logged = 0
  /\ supplied = <<>>
  /\ config = <<>>
  /\ maxRetries \in (0 - 1)..MaxRetries
  /\ now = StartClock
  /\ xpc = "loop"
  /\ attempt = 0
  /\ lastError = <<>>
  /\ retryable = <<>>
  /\ calls = 0
  /\ opRes = Pending
  /\ delays = <<>>
  /\ xres = Pending
  /\ args = <<>>
  /\ tpc = "idle"
  /\ payload = <<>>
  /\ tres = Pending
  /\ fetchLog = <<>>
  /\ tracked = <<>>
  /\ aborts = 0
  /\ options = <<>>
  /\ wargs = <<>>
  /\ wpc = "idle"
  /\ startTime = 0
  /\ settledAt = 0
  /\ invocationMetadata = <<>>
  /\ fnRes = Pending
  /\ fnCalls = 0
  /\ fnArgs = <<>>
  /\ caught = <<>>
  /\ extractorErrors = {}
  /\ extracted = <<>>
  /\ wres = Pending

NextRetry == ExecuteAttempt \/ ExecuteFallThrough \/ ExecuteBackoff

SpecRetry == InitRetry /\ [][NextRetry]_vars

\* ---------------------------------------------------- APIClient.sendEvent

\* response.ok
ResponseOk(status) == status >= 200 /\ status <= 299

\* response.statusText
StatusText(status) ==
  CASE status = 400 -> <<"Bad", "Request">>
    [] status = 401 -> <<"Unauthorized">>
    [] status = 429 -> <<"Too", "Many", "Requests">>
    [] status = 500 -> <<"Internal", "Server", "Error">>
    [] OTHER -> <<"Error">>

\* A mutant of HttpError: the rejection of response.text() is not caught
\* and takes the place of the HTTP error.
HttpError_BodyFailureThrown(status, body) ==
  IF body = <<>>
    THEN [name |-> "TypeError", message |-> <<"body", "stream", "error">>]
    ELSE [name |-> "Error",
          message |-> <<"HTTP", ToString(status)>> \o (IF body[1] # <<>> THEN body[1] ELSE StatusText(status)),
          status |-> status]

\* The error sendEvent builds for a non-2xx response (lines 518-520):
\* `HTTP ${status}: ${errorBody || statusText}` with error.status set; a
\* failed read of the body counts as the empty text.
HttpError(status, body) ==
  LET errorBody == IF body = <<>> THEN <<>> ELSE body[1]
  IN [name |-> "Error",
      message |-> <<"HTTP", ToString(status)>> \o (IF errorBody # <<>> THEN errorBody ELSE StatusText(status)),
      status |-> status]

\* What the try block of one attempt ends in (lines 503-536).
SendEventTry(net) ==
  CASE net.kind = "network" ->
         [kind |-> "error", error |-> [name |-> "TypeError", message |-> <<"fetch", "failed">>]]
    [] net.kind = "abort" ->
         [kind |-> "error", error |-> [name |-> "AbortError", message |-> <<"This", "operation", "was", "aborted">>]]
    [] net.kind = "response" /\ ~ResponseOk(net.status) ->
         [kind |-> "error", error |-> HttpError(net.status, net.body)]
    [] net.kind = "response" /\ ResponseOk(net.status) /\ net.json = <<>> ->
         [kind |-> "error", error |-> [name |-> "SyntaxError", message |-> <<"Unexpected", "end", "of", "JSON", "input">>]]
    [] OTHER ->
         [kind |-> "ok", value |-> net.json[1]]

\* A mutant of SendEventOp: the timeout message states the default timeout,
\* not the configured one.
SendEventOp_DefaultInMessage(net, timeout) ==
  LET r == SendEventTry(net)
  IN IF r.kind = "error" /\ r.error.name = "AbortError"
       THEN [kind |-> "error",
             error |-> [name |-> "Error", message |-> <<"Request", "timeout", "after", ToString(Timeout) \o "ms">>]]
       ELSE r

\* One attempt of sendEvent, the operation it hands to execute: the try
\* block and its catch (lines 537-542), which turns an abort into a timeout
\* error and rethrows anything else.
SendEventOp(net, timeout) ==
  LET r == SendEventTry(net)
  IN IF r.kind = "error" /\ r.error.name = "AbortError"
       THEN [kind |-> "error",
             error |-> [name |-> "Error", message |-> <<"Request", "timeout", "after", ToString(timeout) \o "ms">>]]
       ELSE r

\* How long a call of fetch takes: the timer aborts it after config.timeout;
\* any other outcome arrives at once.
Latency(net, timeout) == IF net.kind = "abort" THEN timeout ELSE 0

\* A mutant of SendAttempt: a retry sends a payload built anew from the
\* tool name and event type, without duration and metadata.
SendAttempt_RebuildsPayload ==
  /\ tpc = "sending"
  /\ xpc = "loop"
  /\ attempt <= maxRetries
  /\ calls' = calls + 1
  /\ \E net \in NetOutcomes :
       LET outcome == SendEventOp(net, config.timeout)
           sent == IF attempt = 0 THEN payload[1]
                   ELSE [tool_name |-> payload[1].tool_name, event_type |-> payload[1].event_type]
       IN /\ fetchLog' = Append(fetchLog, [payload |-> sent, ok |-> outcome.kind = "ok"])
          /\ aborts' = IF net.kind = "abort" THEN aborts + 1 ELSE aborts
          /\ now' = now + Latency(net, config.timeout)
          /\ ExecuteSettle(outcome)
  /\ UNCHANGED <<entry, mvars, cvars, supplied, config, maxRetries, attempt, tvars, tracked, wvars>>

\* One iteration of execute's loop inside sendEvent: the loop test, one
\* delivery attempt and execute's handling of its outcome.
SendAttempt ==
  /\ tpc = "sending"
  /\ xpc = "loop"
  /\ attempt <= maxRetries
  /\ calls' = calls + 1
  /\ \E net \in NetOutcomes :
       LET outcome == SendEventOp(net, config.timeout)
       IN /\ fetchLog' = Append(fetchLog, [payload |-> payload[1], ok |-> outcome.kind = "ok"])
          /\ aborts' = IF net.kind = "abort" THEN aborts + 1 ELSE aborts
          /\ now' = now + Latency(net, config.timeout)
          /\ ExecuteSettle(outcome)
  /\ UNCHANGED <<entry, mvars, cvars, supplied, config, maxRetries, attempt, tvars, tracked, wvars>>

\* ------------------------------------------------------- MCPTracker.track

Resolved(v) == [kind |-> "resolved", value |-> v]
Rejected(e) == [kind |-> "rejected", error |-> e]

\* A mutant of BuildPayload: duration_ms is spread in when durationMs is
\* truthy, so a duration of 0 is left out.
BuildPayload_TruthyDuration(toolName, eventType, metadata, durationMs) ==
  Spread(Spread([tool_name |-> toolName, event_type |-> eventType],
                IF durationMs # <<>> /\ durationMs[1] # 0 THEN [duration_ms |-> durationMs[1]] ELSE <<>>),
         IF metadata # <<>> THEN [metadata |-> metadata[1]] ELSE <<>>)

\* A mutant of BuildPayload: an empty metadata object is left out.
BuildPayload_DropsEmptyMetadata(toolName, eventType, metadata, durationMs) ==
  Spread(Spread([tool_name |-> toolName, event_type |-> eventType],
                IF durationMs # <<>> THEN [duration_ms |-> durationMs[1]] ELSE <<>>),
         IF metadata # <<>> /\ metadata[1] # <<>> THEN [metadata |-> metadata[1]] ELSE <<>>)

\* track's payload (lines 33-38): duration_ms when durationMs !== undefined,
\* metadata when metadata is truthy.
BuildPayload(toolName, eventType, metadata, durationMs) ==
  Spread(Spread([tool_name |-> toolName, event_type |-> eventType],
                IF durationMs # <<>> THEN [duration_ms |-> durationMs[1]] ELSE <<>>),
         IF metadata # <<>> THEN [metadata |-> metadata[1]] ELSE <<>>)

\* track up to its await: the payload is built and sendEvent enters execute.
TrackBegin(toolName, eventType, metadata, durationMs) ==
  /\ payload' = <<BuildPayload(toolName, eventType, metadata, durationMs)>>
  /\ tracked' = Append(tracked, eventType)
  /\ tpc' = "sending"
  /\ tres' = Pending
  /\ ExecuteBegin

\* A mutant of trackInvocation: a duration is passed on to track.
trackInvocation_WithDuration(toolName, metadata) == TrackBegin(toolName, "invocation", metadata, <<0>>)

\* trackInvocation (lines 51-53): track without a duration.
trackInvocation(toolName, metadata) == TrackBegin(toolName, "invocation", metadata, <<>>)

\* A mutant of trackSuccess: the event goes out as a failure.
trackSuccess_AsFailure(toolName, metadata, durationMs) == TrackBegin(toolName, "failure", metadata, durationMs)

\* trackSuccess (lines 58-64): track with the event type success.
trackSuccess(toolName, metadata, durationMs) == TrackBegin(toolName, "success", metadata, durationMs)

\* A mutant of trackFailure: the duration is not passed on to track.
trackFailure_DropsDuration(toolName, metadata, durationMs) == TrackBegin(toolName, "failure", metadata, <<>>)

\* trackFailure (lines 69-75): track with the event type failure.
trackFailure(toolName, metadata, durationMs) == TrackBegin(toolName, "failure", metadata, durationMs)

\* A mutant of TrackResult: track has no catch, the pipeline's error escapes.
TrackResult_NoCatch(x) ==
  IF x.kind = "returned"
    THEN Resolved([success |-> TRUE])
    ELSE Rejected(x.error)

\* A mutant of TrackResult: the acknowledgement's ok field decides the
\* success flag.
TrackResult_ChecksOk(x) ==
  IF x.kind = "returned"
    THEN IF x.value.ok THEN Resolved([success |-> TRUE])
         ELSE Resolved([success |-> FALSE, error |-> [name |-> "Error", message |-> <<"Not", "acknowledged">>]])
    ELSE Resolved([success |-> FALSE, error |-> x.error])

\* What track settles with (lines 40-45), given how sendEvent settled.
TrackResult(x) ==
  IF x.kind = "returned"
    THEN Resolved([success |-> TRUE])
    ELSE Resolved([success |-> FALSE, error |-> x.error])

\* The caller invokes track or one of the convenience methods.
TrackCall ==
  /\ entry \in {"track", "trackInvocation", "trackSuccess", "trackFailure"}
  /\ config # <<>>
  /\ tpc = "idle"
  /\ CASE entry = "track" -> TrackBegin(args.toolName, args.eventType, args.metadata, args.durationMs)
       [] entry = "trackInvocation" -> trackInvocation(args.toolName, args.metadata)
       [] entry = "trackSuccess" -> trackSuccess(args.toolName, args.metadata, args.durationMs)
       [] entry = "trackFailure" -> trackFailure(args.toolName, args.metadata, args.durationMs)
  /\ UNCHANGED <<entry, mvars, cvars, supplied, config, maxRetries, now, args, fetchLog, aborts, wvars>>

\* sendEvent has settled, by a return or a throw of execute: track returns.
TrackSettle ==
  /\ tpc = "sending"
  /\ xpc = "done"
  /\ tres' = TrackResult(xres)
  /\ tpc' = "done"
  /\ UNCHANGED <<entry, mvars, cvars, supplied, config, maxRetries, now, xvars, args, payload, fetchLog, tracked, aborts, wvars>>

\* The caller of track has taken its result: the frames of track, sendEvent
\* and execute are gone.
PopFrames ==
  /\ tpc' = "idle"
  /\ payload' = <<>>
  /\ tres' = Pending
  /\ xpc' = "idle"
  /\ attempt' = 0
  /\ lastError' = <<>>
  /\ retryable' = <<>>
  /\ calls' = 0
  /\ opRes' = Pending
  /\ delays' = <<>>
  /\ xres' = Pending

\* -------------------------------------------------------- MCPTracker.wrap

\* An extractor called inside its own try/catch: its metadata, or undefined
\* when it is not supplied or throws.
Extract(behaviour, metadata) == IF behaviour = "returns" THEN <<metadata>> ELSE <<>>

\* An extractor's try and its catch (lines 99-105, 118-124, 136-142): what
\* it returned is kept; its exception is logged and goes no further.
ExtractorTry(behaviour, extractor, metadata) ==
  /\ extracted' = IF behaviour = "returns"
                    THEN [k \in DOMAIN extracted \cup {extractor} |->
                            IF k = extractor THEN metadata ELSE extracted[k]]
                    ELSE extracted
  /\ extractorErrors' = IF behaviour = "throws" THEN extractorErrors \cup {extractor} ELSE extractorErrors

\* A mutant of mergeMetadata: the spread is the other way round, the
\* earlier fragment's keys win.
RECURSIVE mergeMetadata_FirstWins(_)
mergeMetadata_FirstWins(metadatas) ==
  IF metadatas = <<>> THEN <<>>
  ELSE LET acc == mergeMetadata_FirstWins(SubSeq(metadatas, 1, Len(metadatas) - 1))
           metadata == metadatas[Len(metadatas)]
       IN IF metadata = <<>> THEN acc ELSE Spread(metadata[1], acc)

\* utils.ts mergeMetadata: the spread of the defined fragments, left to right.
RECURSIVE mergeMetadata(_)
mergeMetadata(metadatas) ==
  IF metadatas = <<>> THEN <<>>
  ELSE LET acc == mergeMetadata(SubSeq(metadatas, 1, Len(metadatas) - 1))
           metadata == metadatas[Len(metadatas)]
       IN IF metadata = <<>> THEN acc ELSE Spread(acc, metadata[1])

\* fn(params, meta) is called (line 113).
\* A mutant of CallFn: fn is called with params only.
CallFn_WithoutMeta ==
  /\ fnCalls' = fnCalls + 1
  /\ fnArgs' = Append(fnArgs, <<wargs.params, <<>> >>)
  /\ fnRes' = Pending
  /\ wpc' = "fn"

CallFn ==
  /\ fnCalls' = fnCalls + 1
  /\ fnArgs' = Append(fnArgs, <<wargs.params, wargs.meta>>)
  /\ fnRes' = Pending
  /\ wpc' = "fn"

\* How long a call of an extractor takes: no time when the option is
\* absent.
ExtractorLatency(behaviour) == IF behaviour = "absent" THEN 0 ELSE 5

\* A mutant of Duration: the clock is read after the extractor has run.
Duration_AfterExtractor(settled, afterExtractor) == afterExtractor - startTime

\* const duration = Date.now() - startTime (lines 114 and 132), the first
\* statement after fn has settled, before the extractor is called.
Duration(settled, afterExtractor) == settled - startTime

\* A mutant of WrapCatch: the fragments are merged the other way round, so
\* the invocation metadata's keys win over the error metadata's.
WrapCatch_InvocationWins(error) ==
  /\ caught' = <<error>>
  /\ wpc' = "failure"
  /\ \E g \in ExtractorBehaviours :
       /\ ExtractorTry(g, "getErrorMetadata", ErrorMetadata)
       /\ now' = settledAt' + ExtractorLatency(g)
       /\ trackFailure("test_tool",
                       <<mergeMetadata(<<Extract(g, ErrorMetadata), invocationMetadata>>)>>,
                       <<Duration(settledAt', now')>>)

\* The catch block up to its await (lines 131-146): the duration, the error
\* metadata, and the call of trackFailure.
WrapCatch(error) ==
  /\ caught' = <<error>>
  /\ wpc' = "failure"
  /\ \E g \in ExtractorBehaviours :
       /\ ExtractorTry(g, "getErrorMetadata", ErrorMetadata)
       /\ now' = settledAt' + ExtractorLatency(g)
       /\ trackFailure("test_tool",
                       <<mergeMetadata(<<invocationMetadata, Extract(g, ErrorMetadata)>>)>>,
                       <<Duration(settledAt', now')>>)

\* A mutant of shouldTrackInvocation: the option is ignored.
shouldTrackInvocation_Always(o) == TRUE

\* A mutant of shouldTrackInvocation: the default is false.
shouldTrackInvocation_DefaultFalse(o) ==
  IF "trackInvocation" \in DOMAIN o THEN o.trackInvocation ELSE FALSE

\* wrap's option trackInvocation, true by default (line 89).
shouldTrackInvocation(o) ==
  IF "trackInvocation" \in DOMAIN o THEN o.trackInvocation ELSE TRUE

\* wrap's option rethrowErrors, true by default (line 90).
rethrowErrors(o) ==
  IF "rethrowErrors" \in DOMAIN o THEN o.rethrowErrors ELSE TRUE

\* return result (line 130).
WrapReturn(result) == Resolved(<<result>>)

\* A mutant of WrapCatchOutcome: fn's error is swallowed whatever rethrowErrors is.
WrapCatchOutcome_NeverRethrow(t, error, rethrow) ==
  IF t.kind = "rejected" THEN Rejected(t.error)
  ELSE Resolved(<<>>)

\* A mutant of WrapCatchOutcome: the error is rethrown whatever rethrowErrors is.
WrapCatchOutcome_AlwaysRethrow(t, error, rethrow) ==
  IF t.kind = "rejected" THEN Rejected(t.error)
  ELSE Rejected(error)

\* A mutant of WrapCatchOutcome: a failed failure tracking replaces fn's error.
WrapCatchOutcome_TrackingError(t, error, rethrow) ==
  IF t.kind = "rejected" THEN Rejected(t.error)
  ELSE IF ~t.value.success THEN Rejected(t.value.error)
  ELSE IF rethrow THEN Rejected(error)
  ELSE Resolved(<<>>)

\* How the wrapped call settles after the catch block's await of
\* trackFailure (lines 146-154), which settled as t.
WrapCatchOutcome(t, error, rethrow) ==
  IF t.kind = "rejected" THEN Rejected(t.error)
  ELSE IF rethrow THEN Rejected(error)
  ELSE Resolved(<<>>)

\* A mutant of WrapCall: getMetadata is called outside any try of its own,
\* so its exception lands in the wrapped call's catch block and fn is skipped.
WrapCall_NoInnerTry ==
  /\ entry = "wrap"
  /\ wpc = "start"
  /\ startTime' = now
  /\ \E g \in ExtractorBehaviours :
       /\ invocationMetadata' = Extract(g, InputMetadata)
       /\ ExtractorTry(g, "getMetadata", InputMetadata)
       /\ now' = now + ExtractorLatency(g)
       /\ IF g = "throws"
            THEN /\ caught' = <<[name |-> "Error", message |-> <<"Metadata", "error">>]>>
                 /\ wpc' = "failure"
                 /\ trackFailure("test_tool", <<mergeMetadata(<<invocationMetadata'>>)>>, <<0>>)
                 /\ UNCHANGED <<fnRes, fnCalls, fnArgs>>
            ELSE /\ caught' = caught
                 /\ IF shouldTrackInvocation(options)
                      THEN /\ trackInvocation("test_tool", invocationMetadata')
                           /\ wpc' = "invocation"
                           /\ UNCHANGED <<fnRes, fnCalls, fnArgs>>
                      ELSE /\ CallFn
                           /\ UNCHANGED <<xvars, tpc, payload, tres, tracked>>
  /\ UNCHANGED <<entry, mvars, cvars, supplied, config, maxRetries, args, fetchLog, aborts, options, wargs, settledAt, wres>>

\* The wrapped function is called (lines 93-113): startTime, the invocation
\* metadata, then the invocation event, or fn at once when trackInvocation
\* is false.
WrapCall ==
  /\ entry = "wrap"
  /\ wpc = "start"
  /\ startTime' = now
  /\ \E g \in ExtractorBehaviours :
       /\ invocationMetadata' = Extract(g, InputMetadata)
       /\ ExtractorTry(g, "getMetadata", InputMetadata)
       /\ now' = now + ExtractorLatency(g)
  /\ IF shouldTrackInvocation(options)
       THEN /\ trackInvocation("test_tool", invocationMetadata')
            /\ wpc' = "invocation"
            /\ UNCHANGED <<fnRes, fnCalls, fnArgs>>
       ELSE /\ CallFn
            /\ UNCHANGED <<xvars, tpc, payload, tres, tracked>>
  /\ UNCHANGED <<entry, mvars, cvars, supplied, config, maxRetries, args, fetchLog, aborts, options, wargs, settledAt, caught, wres>>

\* A mutant of WrapAfterInvocation: trackInvocation is not awaited, fn is
\* called while the invocation event is still being delivered.
WrapAfterInvocation_NoAwait ==
  /\ wpc = "invocation"
  /\ CallFn
  /\ UNCHANGED <<xvars, tpc, payload, tres, caught, extractorErrors, extracted>>
  /\ UNCHANGED <<entry, mvars, cvars, supplied, config, maxRetries, now, args, fetchLog, tracked, aborts, options, wargs, startTime, settledAt, invocationMetadata, wres>>

\* trackInvocation has settled (line 109): fn is called.
WrapAfterInvocation ==
  /\ wpc = "invocation"
  /\ tpc = "done"
  /\ IF tres.kind = "rejected"
       THEN /\ settledAt' = now
            /\ WrapCatch(tres.error)
            /\ UNCHANGED <<fnRes, fnCalls, fnArgs>>
       ELSE /\ CallFn
            /\ PopFrames
            /\ UNCHANGED <<now, settledAt, tracked, caught, extractorErrors, extracted>>
  /\ UNCHANGED <<entry, mvars, cvars, supplied, config, maxRetries, args, fetchLog, aborts, options, wargs, startTime, invocationMetadata, wres>>

\* fn has settled (line 113).  Resolved: the duration, the output metadata
\* and the call of trackSuccess (lines 114-128).  Rejected: the catch block.
FnSettle ==
  /\ wpc = "fn"
  /\ \E d \in FnLatencies : settledAt' = now + d
  /\ \E o \in {Resolved(v) : v \in FnValues} \cup {Rejected(e) : e \in FnErrors} :
       /\ fnRes' = o
       /\ IF o.kind = "resolved"
            THEN /\ \E g \in ExtractorBehaviours :
                      /\ ExtractorTry(g, "getOutputMetadata", OutputMetadata)
                      /\ now' = settledAt' + ExtractorLatency(g)
                      /\ trackSuccess("test_tool",
                                      <<mergeMetadata(<<invocationMetadata, Extract(g, OutputMetadata)>>)>>,
                                      <<Duration(settledAt', now')>>)
                 /\ wpc' = "success"
                 /\ caught' = caught
            ELSE WrapCatch(o.error)
  /\ UNCHANGED <<entry, mvars, cvars, supplied, config, maxRetries, args, fetchLog, aborts, options, wargs, startTime, invocationMetadata, fnCalls, fnArgs, wres>>

\* trackSuccess has settled (lines 128-130): the result is returned.
WrapAfterSuccess ==
  /\ wpc = "success"
  /\ tpc = "done"
  /\ IF tres.kind = "rejected"
       THEN /\ settledAt' = now
            /\ WrapCatch(tres.error)
            /\ wres' = wres
       ELSE /\ wres' = WrapReturn(fnRes.value)
            /\ wpc' = "done"
            /\ PopFrames
            /\ UNCHANGED <<now, settledAt, tracked, caught, extractorErrors, extracted>>
  /\ UNCHANGED <<entry, mvars, cvars, supplied, config, maxRetries, args, fetchLog, aborts, options, wargs, startTime, invocationMetadata, fnRes, fnCalls, fnArgs>>

\* A mutant of WrapAfterFailure: trackFailure is not awaited, the wrapped
\* call settles while the failure event is still being delivered.
WrapAfterFailure_NoAwait ==
  /\ wpc = "failure"
  /\ wres' = IF rethrowErrors(options) THEN Rejected(caught[1]) ELSE Resolved(<<>>)
  /\ wpc' = "done"
  /\ PopFrames
  /\ UNCHANGED <<entry, mvars, cvars, supplied, config, maxRetries, now, args, fetchLog, tracked, aborts, options, wargs, startTime,
                 settledAt, invocationMetadata, fnRes, fnCalls, fnArgs, caught, extractorErrors, extracted>>

\* trackFailure has settled (lines 146-154): rethrow, or return undefined.
WrapAfterFailure ==
  /\ wpc = "failure"
  /\ tpc = "done"
  /\ wres' = WrapCatchOutcome(tres, caught[1], rethrowErrors(options))
  /\ wpc' = "done"
  /\ PopFrames
  /\ UNCHANGED <<entry, mvars, cvars, supplied, config, maxRetries, now, args, fetchLog, tracked, aborts, options, wargs, startTime,
                 settledAt, invocationMetadata, fnRes, fnCalls, fnArgs, caught, extractorErrors, extracted>>

\* ------------------------------------------------------------ the tracker

\* A tracker with its resolved config, and one call on it: track, a
\* convenience method, or a function wrapped with some options.
Init ==
  /\ entry \in {"track", "trackInvocation", "trackSuccess", "trackFailure", "wrap"}
  /\ fragments = <<>>
  /\ merged = <<>>
  /\ callerConfigs = <<>>
  /\ trackers = <<>>
  /\ frames = <<>>
  /\ logged = 0
  /\ supplied \in {[apiKey |-> "test-key", retries |-> r] : r \in (0 - 1)..MaxTrackerRetries}
  /\ config = Constructor(supplied)
  /\ maxRetries = config.retries
  /\ now = StartClock
  /\ xpc = "idle"
  /\ attempt = 0
  /\ lastError = <<>>
  /\ retryable = <<>>
  /\ calls = 0
  /\ opRes = Pending
  /\ delays = <<>>
  /\ xres = Pending
  /\ args \in {a \in TrackArgs :
                 /\ entry = "trackInvocation" => a.eventType = "invocation" /\ a.durationMs = <<>>
                 /\ entry = "trackSuccess" => a.eventType = "success"
                 /\ entry = "trackFailure" => a.eventType = "failure"
                 /\ entry = "wrap" => a.eventType = "invocation" /\ a.durationMs = <<>> /\ a.metadata = <<>>}
  /\ tpc = "idle"
  /\ payload = <<>>
  /\ tres = Pending
  /\ fetchLog = <<>>
  /\ tracked = <<>>
  /\ aborts = 0
  /\ options \in IF entry = "wrap" THEN WrapOptions ELSE {<<>>}
  /\ wargs \in IF entry = "wrap" THEN WrapArgs ELSE {<<>>}
  /\ wpc = IF entry = "wrap" THEN "start" ELSE "idle"
  /\ startTime = 0
  /\ settledAt = 0
  /\ invocationMetadata = <<>>
  /\ fnRes = Pending
  /\ fnCalls = 0
  /\ fnArgs = <<>>
  /\ caught = <<>>
  /\ extractorErrors = {}
  /\ extracted = <<>>
  /\ wres = Pending

Next ==
  \/ TrackCall
  \/ WrapCall
  \/ SendAttempt
  \/ ExecuteFallThrough
  \/ ExecuteBackoff
  \/ TrackSettle
  \/ WrapAfterInvocation
  \/ FnSettle
  \/ WrapAfterSuccess
  \/ WrapAfterFailure

Spec == Init /\ [][Next]_vars

\* The same call when everything it waits for comes: every attempt of the
\* operation settles, fn settles, every backoff timer fires and the event
\* loop runs every continuation that is ready.  The steps of one call are
\* sequential, so that weak fairness of the next step says exactly that.
InitLive == Init /\ config.retries <= MaxLiveRetries

SpecLive == InitLive /\ [][Next]_vars /\ WF_vars(Next)

\* ------------------------------------------- construction, then one track

\* new MCPTracker(config): this.config is resolved, and the APIClient makes
\* its RetryHandler from config.retries (client.ts line 492).
Construct ==
  /\ supplied # <<>>
  /\ config = <<>>
  /\ config' = Constructor(supplied)
  /\ maxRetries' = config'.retries
  /\ UNCHANGED <<entry, mvars, cvars, supplied, now, xvars, tvars, fetchLog, tracked, aborts, wvars>>

\* A caller is about to construct a tracker from some config and to call
\* track on it.
InitConfig ==
  /\ entry = "track"
  /\ fragments = <<>>
  /\ merged = <<>>
  /\ callerConfigs = <<>>
  /\ trackers = <<>>
  /\ frames = <<>>
  /\ logged = 0
  /\ supplied \in SuppliedConfigs
  /\ config = <<>>
  /\ maxRetries = 0
  /\ now = StartClock
  /\ xpc = "idle"
  /\ attempt = 0
  /\ lastError = <<>>
  /\ retryable = <<>>
  /\ calls = 0
  /\ opRes = Pending
  /\ delays = <<>>
  /\ xres = Pending
  /\ args = [toolName |-> "test_tool", eventType |-> "success",
             metadata |-> <<[foo |-> "bar"]>>, durationMs |-> <<0>>]
  /\ tpc = "idle"
  /\ payload = <<>>
  /\ tres = Pending
  /\ fetchLog = <<>>
  /\ tracked = <<>>
  /\ aborts = 0
  /\ options = <<>>
  /\ wargs = <<>>
  /\ wpc = "idle"
  /\ startTime = 0
  /\ settledAt = 0
  /\ invocationMetadata = <<>>
  /\ fnRes = Pending
  /\ fnCalls = 0
  /\ fnArgs = <<>>
  /\ caught = <<>>
  /\ extractorErrors = {}
  /\ extracted = <<>>
  /\ wres = Pending

NextConfig ==
  \/ Construct
  \/ TrackCall
  \/ SendAttempt
  \/ ExecuteFallThrough
  \/ ExecuteBackoff
  \/ TrackSettle

SpecConfig == InitConfig /\ [][NextConfig]_vars

\* ------------------------------------------------- mergeMetadata alone

\* Every sequence of at most n fragments.
RECURSIVE FragmentSeqs(_)
FragmentSeqs(n) ==
  IF n = 0 THEN {<<>>}
  ELSE LET shorter == FragmentSeqs(n - 1)
       IN shorter \cup {Append(q, f) : q \in shorter, f \in Fragments}

\* mergeMetadata(...metadatas) is called and returns: the result is a new
\* object (the {} of reduce, then a new object per spread), the arguments
\* are only read.
Merge ==
  /\ entry = "mergeMetadata"
  /\ merged = <<>>
  /\ merged' = <<mergeMetadata(fragments)>>
  /\ fragments' = fragments
  /\ UNCHANGED <<entry, cvars, supplied, config, maxRetries, now, xvars, tvars, fetchLog, tracked, aborts, wvars>>

\* A caller is about to call mergeMetadata with some fragments.
InitMerge ==
  /\ entry = "mergeMetadata"
  /\ fragments \in FragmentSeqs(MaxFragments)
  /\ merged = <<>>
  /\ callerConfigs = <<>>
  /\ trackers = <<>>
  /\ frames = <<>>
  /\ logged = 0
  /\ supplied = <<>>
  /\ config = <<>>
  /\ maxRetries = 0
  /\ now = StartClock
  /\ xpc = "idle"
  /\ attempt = 0
  /\ lastError = <<>>
  /\ retryable = <<>>
  /\ calls = 0
  /\ opRes = Pending
  /\ delays = <<>>
  /\ xres = Pending
  /\ args = <<>>
  /\ tpc = "idle"
  /\ payload = <<>>
  /\ tres = Pending
  /\ fetchLog = <<>>
  /\ tracked = <<>>
  /\ aborts = 0
  /\ options = <<>>
  /\ wargs = <<>>
  /\ wpc = "idle"
  /\ startTime = 0
  /\ settledAt = 0
  /\ invocationMetadata = <<>>
  /\ fnRes = Pending
  /\ fnCalls = 0
  /\ fnArgs = <<>>
  /\ caught = <<>>
  /\ extractorErrors = {}
  /\ extracted = <<>>
  /\ wres = Pending

NextMerge == Merge

SpecMerge == InitMerge /\ [][NextMerge]_vars

\* ------------------------------------- concurrent calls of sendEvent
\* Two callers, one or two tracker instances. Each call of sendEvent runs
\* execute with its own locals; one attempt is taken step by step: the timer
\* is set and fetch is called, the timer may fire, fetch settles, the body
\* read settles.

MaxCallRetries == 1

\* The calls in progress and the tracker instances.
Calls == {1, 2}
Trackers == {1, 2}

\* What the endpoint may answer here: the statuses of its responses, what
\* response.text() gives (a rejection, the empty text or a text) and what
\* response.json() gives.
CallStatuses == {200, 400, 500}
CallBodies == {<<>>, << <<>> >>, << <<"Invalid", "payload">> >>}
CallAcks == {<<>>, <<[ok |-> TRUE]>>}

\* The config objects of the two callers: the first states retries, timeout
\* and debug, the second an endpoint and no retries.
CallerConfigs ==
  {[t \in Trackers |->
      IF t = 1 THEN [apiKey |-> "key-1", retries |-> r, timeout |-> 1000, debug |-> d]
               ELSE [apiKey |-> "key-2", endpoint |-> "https://custom.example/track", retries |-> 0]] :
     r \in (0 - 1)..MaxCallRetries, d \in BOOLEAN}

\* What a caller may assign to the fields of its config object later on.
ChangedConfig == [apiKey |-> "changed", endpoint |-> "https://changed.example", retries |-> 5, timeout |-> 1, debug |-> TRUE]

\* A mutant of TrackerConfig: the tracker keeps the caller's object and
\* resolves the defaults at each use.
TrackerConfig_CallersObject(t) == Constructor(callerConfigs[t])

\* this.config of tracker t; its APIClient and RetryHandler hold the same
\* values (client.ts lines 491-494).
TrackerConfig(t) == trackers[t]

\* debugLog(debug, ...) called n times: console.log runs only when debug is
\* set.
debugLog(debug, console, n) == IF debug THEN console + n ELSE console

\* The locals of a call of sendEvent on tracker t that has just entered
\* execute: lastError undefined, attempt 0; nothing sent yet. response is
\* the status of the response of the attempt in progress, read what the
\* read of its body gave, stalled whether the server stops sending after
\* the status and headers, so that the read of the body never settles; nets
\* and outs list what the network did in each attempt so far and what the
\* attempt ended in.
NewFrame(t) ==
  [tracker |-> t, pc |-> "loop", attempt |-> 0, lastError |-> <<>>, calls |-> 0,
   delays |-> <<>>, res |-> Pending, outs |-> <<>>, timers |-> <<>>, requests |-> <<>>,
   response |-> <<>>, stalled |-> FALSE, read |-> <<>>, nets |-> <<>>]

\* clearTimeout(timeoutId) of the attempt in progress: a pending timer is
\* removed, one that has fired is left as it is.
ClearTimeout(timers) ==
  [timers EXCEPT ![Len(timers)] = IF @ = "pending" THEN "cleared" ELSE @]

\* A mutant of Finally: the timer is not cleared when the attempt ends.
Finally_NoClear(f) == f

\* The finally block of one attempt (lines 543-545).
Finally(f) == [f EXCEPT !.timers = ClearTimeout(@)]

\* The request the i-th timer of call c aborts: the one made with the
\* controller created in the same attempt (lines 500-501, 511).
AbortTarget(c, i) == <<c, i>>

\* A mutant of CallSettle: in debug mode a failed attempt is not retried.
CallSettle_DebugGivesUp(f, outcome) ==
  LET cfg == TrackerConfig(f.tracker)
      g == [f EXCEPT !.outs = Append(@, outcome)]
  IN IF outcome.kind = "ok"
       THEN [g EXCEPT !.res = Returned(outcome.value), !.pc = "done"]
       ELSE LET h == [g EXCEPT !.lastError = <<outcome.error>>]
            IN IF ~isRetryableError(outcome.error) \/ f.attempt = cfg.retries \/ cfg.debug
                 THEN [h EXCEPT !.res = Threw(outcome.error), !.pc = "done"]
                 ELSE [h EXCEPT !.delays = Append(@, BackoffDelay(f.attempt)), !.pc = "sleep"]

\* A mutant of CallSettle: when the retries are used up the first error
\* caught is thrown, not the last.
CallSettle_ThrowsFirst(f, outcome) ==
  LET cfg == TrackerConfig(f.tracker)
      g == [f EXCEPT !.outs = Append(@, outcome)]
  IN IF outcome.kind = "ok"
       THEN [g EXCEPT !.res = Returned(outcome.value), !.pc = "done"]
       ELSE LET h == [g EXCEPT !.lastError = IF @ = <<>> THEN <<outcome.error>> ELSE @]
            IN IF ~isRetryableError(outcome.error)
                 THEN [h EXCEPT !.res = Threw(outcome.error), !.pc = "done"]
                 ELSE IF f.attempt = cfg.retries
                   THEN [h EXCEPT !.res = Threw(h.lastError[1]), !.pc = "done"]
                   ELSE [h EXCEPT !.delays = Append(@, BackoffDelay(f.attempt)), !.pc = "sleep"]

\* What execute does with the settled attempt of a call (retry.ts lines
\* 16-37): return its value, or catch its error and give up or schedule the
\* backoff.
CallSettle(f, outcome) ==
  LET cfg == TrackerConfig(f.tracker)
      g == [f EXCEPT !.outs = Append(@, outcome)]
  IN IF outcome.kind = "ok"
       THEN [g EXCEPT !.res = Returned(outcome.value), !.pc = "done"]
       ELSE LET h == [g EXCEPT !.lastError = <<outcome.error>>]
            IN IF ~isRetryableError(outcome.error) \/ f.attempt = cfg.retries
                 THEN [h EXCEPT !.res = Threw(outcome.error), !.pc = "done"]
                 ELSE [h EXCEPT !.delays = Append(@, BackoffDelay(f.attempt)), !.pc = "sleep"]

\* The lines debugLog is asked to write while an attempt ends in outcome:
\* one in sendEvent for a timeout, a 401, 400 or 429 and a success, one in
\* the catch of execute for any error.
SettleLines(net, outcome) ==
  (IF net.kind = "abort" THEN 1
   ELSE IF net.kind = "response" /\ net.status \in {400, 401, 429} THEN 1
   ELSE IF outcome.kind = "ok" THEN 1
   ELSE 0)
  + (IF outcome.kind = "error" THEN 1 ELSE 0)

\* The loop test passes and an attempt starts: the debug line, a new
\* controller, the timer, and fetch is called (lines 498-512).
CallStart(c) ==
  LET f == frames[c]
      cfg == TrackerConfig(f.tracker)
  IN /\ entry = "sendEvent"
     /\ f.pc = "loop"
     /\ f.attempt <= cfg.retries
     /\ frames' = [frames EXCEPT ![c] =
          [f EXCEPT !.pc = "fetch",
                    !.calls = @ + 1,
                    !.timers = Append(@, "pending"),
                    !.requests = Append(@, [state |-> "inflight", endpoint |-> cfg.endpoint, apiKey |-> cfg.apiKey]),
                    !.response = <<>>,
                    !.stalled = FALSE,
                    !.read = <<>>]]
     /\ logged' = debugLog(cfg.debug, logged, 1)
     /\ UNCHANGED <<entry, mvars, callerConfigs, trackers, supplied, config, maxRetries, now, xvars, tvars, fetchLog, tracked, aborts, wvars>>

\* The loop test fails: the throw after the loop (retry.ts line 42).
CallFallThrough(c) ==
  LET f == frames[c]
      cfg == TrackerConfig(f.tracker)
  IN /\ entry = "sendEvent"
     /\ f.pc = "loop"
     /\ f.attempt > cfg.retries
     /\ frames' = [frames EXCEPT ![c] =
          [f EXCEPT !.pc = "done",
                    !.res = Threw(IF f.lastError # <<>> THEN f.lastError[1]
                                  ELSE [name |-> "Error", message |-> <<"Unexpected", "error", "in", "retry", "handler">>])]]
     /\ UNCHANGED <<entry, mvars, callerConfigs, trackers, logged, supplied, config, maxRetries, now, xvars, tvars, fetchLog, tracked, aborts, wvars>>

\* A pending timer of call c fires: controller.abort() (line 501), which
\* aborts the request made with that controller if it is still in flight.
TimerFires(c) ==
  /\ entry = "sendEvent"
  /\ \E i \in 1..Len(frames[c].timers) :
       /\ frames[c].timers[i] = "pending"
       /\ LET tgt == AbortTarget(c, i)
              fired == [frames EXCEPT ![c].timers[i] = "fired"]
          IN frames' = [fired EXCEPT ![tgt[1]].requests[tgt[2]].state = IF @ = "inflight" THEN "aborted" ELSE @]
  /\ UNCHANGED <<entry, mvars, callerConfigs, trackers, logged, supplied, config, maxRetries, now, xvars, tvars, fetchLog, tracked, aborts, wvars>>

\* The await of fetch ends (lines 504-514, 537-545): an aborted request
\* rejects with an AbortError, one in flight rejects with a network error
\* or resolves with a response, and then the timer is cleared at once.
CallFetchSettles(c) ==
  LET f == frames[c]
      cfg == TrackerConfig(f.tracker)
      i == Len(f.requests)
  IN /\ entry = "sendEvent"
     /\ f.pc = "fetch"
     /\ IF f.requests[i].state = "aborted"
          THEN LET net == [kind |-> "abort"]
                   outcome == SendEventOp(net, cfg.timeout)
               IN /\ frames' = [frames EXCEPT ![c] = CallSettle(Finally([f EXCEPT !.nets = Append(@, net)]), outcome)]
                  /\ logged' = debugLog(cfg.debug, logged, SettleLines(net, outcome))
          ELSE \/ LET net == [kind |-> "network"]
                      outcome == SendEventOp(net, cfg.timeout)
                  IN /\ frames' = [frames EXCEPT ![c] =
                          CallSettle(Finally([f EXCEPT !.requests[i].state = "failed", !.nets = Append(@, net)]), outcome)]
                     /\ logged' = debugLog(cfg.debug, logged, SettleLines(net, outcome))
               \/ \E status \in CallStatuses, stalls \in BOOLEAN :
                    /\ frames' = [frames EXCEPT ![c] =
                         [f EXCEPT !.requests[i].state = "responded",
                                   !.timers = ClearTimeout(@),
                                   !.response = <<status>>,
                                   !.stalled = stalls,
                                   !.pc = IF ResponseOk(status) THEN "json" ELSE "text"]]
                    /\ logged' = logged
     /\ UNCHANGED <<entry, mvars, callerConfigs, trackers, supplied, config, maxRetries, now, xvars, tvars, fetchLog, tracked, aborts, wvars>>

\* The await of response.text() or response.json() ends (lines 517-536),
\* then the finally block and execute's handling of the outcome. It does
\* not end while the server withholds the rest of the body.
CallBodySettles(c) ==
  LET f == frames[c]
      cfg == TrackerConfig(f.tracker)
  IN /\ entry = "sendEvent"
     /\ f.pc \in {"text", "json"}
     /\ ~f.stalled
     /\ \E net \in [kind : {"response"}, status : {f.response[1]}, body : CallBodies]
                     \cup [kind : {"response"}, status : {f.response[1]}, json : CallAcks] :
          /\ ("body" \in DOMAIN net) = (f.pc = "text")
          /\ LET outcome == SendEventOp(net, cfg.timeout)
             IN /\ frames' = [frames EXCEPT ![c] = CallSettle(Finally([f EXCEPT !.read = net, !.nets = Append(@, net)]), outcome)]
                /\ logged' = debugLog(cfg.debug, logged, SettleLines(net, outcome))
     /\ UNCHANGED <<entry, mvars, callerConfigs, trackers, supplied, config, maxRetries, now, xvars, tvars, fetchLog, tracked, aborts, wvars>>

\* A mutant of CallBackoff: the attempt counter is a field of the retry
\* handler, so every call on the same tracker counts on it.
CallBackoff_SharedAttempt(c) ==
  /\ entry = "sendEvent"
  /\ frames[c].pc = "sleep"
  /\ frames' = [d \in Calls |->
       IF d = c THEN [frames[d] EXCEPT !.pc = "loop", !.attempt = @ + 1]
       ELSE IF frames[d].tracker = frames[c].tracker THEN [frames[d] EXCEPT !.attempt = @ + 1]
       ELSE frames[d]]
  /\ UNCHANGED <<entry, mvars, callerConfigs, trackers, logged, supplied, config, maxRetries, now, xvars, tvars, fetchLog, tracked, aborts, wvars>>

\* The backoff timer of call c fires and the loop goes on: attempt++.
CallBackoff(c) ==
  /\ entry = "sendEvent"
  /\ frames[c].pc = "sleep"
  /\ frames' = [frames EXCEPT ![c] = [@ EXCEPT !.pc = "loop", !.attempt = @ + 1]]
  /\ UNCHANGED <<entry, mvars, callerConfigs, trackers, logged, supplied, config, maxRetries, now, xvars, tvars, fetchLog, tracked, aborts, wvars>>

\* A caller assigns new values to the fields of the config object it once
\* handed to the constructor of tracker t. The tracker holds an object of
\* its own (tracker.ts lines 12-18), which is not touched.
CallerChangesConfig(t) ==
  /\ entry = "sendEvent"
  /\ callerConfigs[t] # ChangedConfig
  /\ callerConfigs' = [callerConfigs EXCEPT ![t] = ChangedConfig]
  /\ UNCHANGED <<entry, mvars, trackers, frames, logged, supplied, config, maxRetries, now, xvars, tvars, fetchLog, tracked, aborts, wvars>>

\* The trackers are constructed and each caller has called sendEvent: both
\* on the first tracker, or one on each.
InitCalls ==
  /\ entry = "sendEvent"
  /\ callerConfigs \in CallerConfigs
  /\ trackers = [t \in Trackers |-> Constructor(callerConfigs[t])]
  /\ frames \in {[c \in Calls |-> NewFrame(IF c = 1 THEN 1 ELSE t)] : t \in Trackers}
  /\ logged = 0
  /\ fragments = <<>>
  /\ merged = <<>>
  /\ supplied = <<>>
  /\ config = <<>>
  /\ maxRetries = 0
  /\ now = StartClock
  /\ xpc = "idle"
  /\ attempt = 0
  /\ lastError = <<>>
  /\ retryable = <<>>
  /\ calls = 0
  /\ opRes = Pending
  /\ delays = <<>>
  /\ xres = Pending
  /\ args = <<>>
  /\ tpc = "idle"
  /\ payload = <<>>
  /\ tres = Pending
  /\ fetchLog = <<>>
  /\ tracked = <<>>
  /\ aborts = 0
  /\ options = <<>>
  /\ wargs = <<>>
  /\ wpc = "idle"
  /\ startTime = 0
  /\ settledAt = 0
  /\ invocationMetadata = <<>>
  /\ fnRes = Pending
  /\ fnCalls = 0
  /\ fnArgs = <<>>
  /\ caught = <<>>
  /\ extractorErrors = {}
  /\ extracted = <<>>
  /\ wres = Pending

NextCalls ==
  \/ \E c \in Calls :
       \/ CallStart(c)
       \/ CallFallThrough(c)
       \/ TimerFires(c)
       \/ CallFetchSettles(c)
       \/ CallBodySettles(c)
       \/ CallBackoff(c)
  \/ CallerChangesConfig(1)

SpecCalls == InitCalls /\ [][NextCalls]_vars

\* ------------------------------------------------ claims on the retry engine

\* The error execute caught last carries an HTTP status in [400, 500).
LastErrorIsClientError ==
  /\ lastError # <<>>
  /\ "status" \in DOMAIN lastError[1]
  /\ lastError[1].status >= 400
  /\ lastError[1].status < 500

\* C1: for every retry count r >= 0, as long as every failed attempt failed
\* with a retryable error, execute goes on to another attempt until the
\* operation has been invoked exactly r + 1 times, and then it throws: it
\* never invokes the operation more than r + 1 times, and after a retryable
\* failure it has thrown exactly when the r + 1 invocations are used up.
C1_RetriesPlusOneAttempts ==
  maxRetries >= 0 =>
    /\ calls <= maxRetries + 1
    /\ (retryable = <<TRUE>> /\ xres.kind # "returned") =>
         /\ xres.kind = "threw" <=> calls = maxRetries + 1
         /\ xres.kind = "threw" => xres.error = lastError[1]
         /\ xres.kind = "pending" => xpc \in {"sleep", "loop"}

\* C1 witness: a handler with 2 retries gave up on a retryable error after
\* 3 invocations.
C1_Witness ==
  /\ maxRetries = 2
  /\ calls = 3
  /\ xres.kind = "threw"
  /\ retryable = <<TRUE>>
  /\ Len(delays) = 2

\* C2 (as claimed): whenever an attempt fails with an error that carries a
\* status in [400, 500), whatever its name and message, execute propagates
\* that error at once: no delay is scheduled and no further attempt is made,
\* so a first attempt failing that way is the only one.
C2_ClientErrorSingleAttempt ==
  LastErrorIsClientError =>
    /\ xres = Threw(lastError[1])
    /\ Len(delays) = calls - 1
    /\ attempt = 0 => calls = 1 /\ delays = <<>>

\* The decision table of C3, its rows applied in the order they are listed.
C3_Table(error) ==
  CASE error.name = "TypeError" \/ IncludesFetch(error) -> TRUE
    [] "status" \in DOMAIN error /\ error.status \in 400..499 -> FALSE
    [] "status" \in DOMAIN error /\ error.status >= 500 -> TRUE
    [] OTHER -> TRUE

C4_Schedule(i) ==
  CASE i = 0 -> 100
    [] i = 1 -> 200
    [] i = 2 -> 400
    [] i = 3 -> 800
    [] i = 4 -> 1600
    [] OTHER -> 3000

\* C4: the k-th delay execute waits (after the failed attempt k - 1) is
\* min(100 * 2^(k-1), 3000): 100, 200, 400, 800, 1600, then 3000; no delay
\* exceeds 3000 and no delay is smaller than the one before it; and a delay
\* is waited after every failed attempt but the last.
C4_BackoffSchedule ==
  /\ \A k \in 1..Len(delays) :
       /\ delays[k] = C4_Schedule(k - 1)
       /\ delays[k] <= 3000
       /\ k > 1 => delays[k - 1] <= delays[k]
  /\ xpc = "sleep" => Len(delays) = attempt + 1
  /\ xpc # "sleep" => Len(delays) = attempt

\* C4 witness: seven delays were waited, the last two both at the cap.
C4_Witness ==
  /\ Len(delays) = 7
  /\ delays[5] = 1600
  /\ delays[6] = 3000
  /\ delays[7] = 3000

\* ---------------------------------------------------- claims on the tracker

\* The event types of the fetch calls made so far, in order.
SentTypes == [i \in 1..Len(fetchLog) |-> fetchLog[i].payload.event_type]

\* The endpoint has been healthy: every delivery attempt made was accepted
\* with a 2xx response and a parseable acknowledgement.
Healthy == \A i \in 1..Len(fetchLog) : fetchLog[i].ok

\* wrap's options are the default ones: nothing is set to false.
DefaultOptions == \A k \in DOMAIN options : options[k]

\* An option is set to false.
OptionOff(k) == k \in DOMAIN options /\ ~options[k]

\* The wrapped call has settled.
WrapDone == entry = "wrap" /\ wpc = "done"

\* C5: track and the three convenience methods never reject.  Once track
\* has settled it has resolved: to {success: true} when sendEvent returned
\* (the last attempt delivered the payload), and to {success: false, error}
\* with the very error execute threw when retries ran out or a
\* non-retryable error ended the loop.
C5_TrackNeverRejects ==
  /\ tres.kind # "rejected"
  /\ tpc = "done" =>
       /\ tres.kind = "resolved"
       /\ xres.kind \in {"returned", "threw"}
       /\ xres.kind = "returned" =>
            /\ tres.value = [success |-> TRUE]
            /\ fetchLog # <<>> /\ fetchLog[Len(fetchLog)] = [payload |-> payload[1], ok |-> TRUE]
       /\ xres.kind = "threw" =>
            /\ tres.value = [success |-> FALSE, error |-> xres.error]
            /\ fetchLog # <<>> => ~fetchLog[Len(fetchLog)].ok
            /\ maxRetries >= 0 =>
                 /\ xres.error = lastError[1]
                 /\ calls = maxRetries + 1 \/ retryable = <<FALSE>>

\* C5 witness: a directly called trackFailure whose three attempts all
\* failed with retryable errors resolved to {success: false, error}.
C5_Witness ==
  /\ entry = "trackFailure"
  /\ tpc = "done"
  /\ maxRetries = 2
  /\ calls = 3
  /\ retryable = <<TRUE>>
  /\ tres.kind = "resolved"
  /\ ~tres.value.success
  /\ tres.value.error.name = "TypeError"

\* What the caller of a wrapped function must see, given only how fn
\* settled and the rethrowErrors option.
C6_Expected ==
  IF fnRes.kind = "resolved" THEN Resolved(<<fnRes.value>>)
  ELSE IF ~OptionOff("rethrowErrors") THEN Rejected(fnRes.error)
  ELSE Resolved(<<>>)

\* C6: the outcome of a wrapped call is a function of fn's outcome and of
\* rethrowErrors alone: whatever the delivery attempts did (all delivered,
\* all failed, or any mix), a resolved fn gives its value unchanged, a
\* rejected fn gives its own error (or undefined without rethrowErrors), fn
\* ran exactly once, and no tracking error is ever the caller's outcome.
C6_OutcomeIndependentOfDelivery ==
  /\ wres.kind = "pending" <=> wpc # "done"
  /\ WrapDone =>
       /\ fnCalls = 1
       /\ fnRes.kind # "pending"
       /\ wres = C6_Expected

\* C6 witness: every delivery attempt of both events failed, and the
\* wrapped call still resolved to fn's value.
C6_Witness ==
  /\ WrapDone
  /\ fnRes.kind = "resolved"
  /\ Len(fetchLog) = 6
  /\ \A i \in 1..Len(fetchLog) : ~fetchLog[i].ok
  /\ wres = Resolved(<<fnRes.value>>)

\* C7: with default options, a valid retry count (>= 0) and a healthy
\* endpoint, a wrapped call whose fn resolved to v has made exactly 2
\* delivery calls, an invocation event then a success event, and has
\* resolved to v.
C7_SuccessPathTwoCalls ==
  (WrapDone /\ DefaultOptions /\ maxRetries >= 0 /\ Healthy /\ fnRes.kind = "resolved") =>
    /\ SentTypes = <<"invocation", "success">>
    /\ wres = Resolved(<<fnRes.value>>)

\* C7 witness: such a call, which resolved to {data: 'result'}.
C7_Witness ==
  /\ WrapDone /\ options = <<>> /\ Healthy
  /\ Len(fetchLog) = 2
  /\ fnRes = Resolved([data |-> "result"])
  /\ wres = Resolved(<<[data |-> "result"]>>)

\* C8: with default options, a valid retry count (>= 0) and a healthy
\* endpoint, a wrapped call whose fn rejected with e has made exactly 2
\* delivery calls, an invocation event then a failure event, and has
\* rejected with e itself.
C8_FailurePathTwoCalls ==
  (WrapDone /\ DefaultOptions /\ maxRetries >= 0 /\ Healthy /\ fnRes.kind = "rejected") =>
    /\ SentTypes = <<"invocation", "failure">>
    /\ wres = Rejected(fnRes.error)

\* C8 witness: such a call, which rejected with fn's 'Test error'.
C8_Witness ==
  /\ WrapDone /\ options = <<>> /\ Healthy
  /\ Len(fetchLog) = 2
  /\ fnRes.kind = "rejected"
  /\ wres = Rejected([name |-> "Error", message |-> <<"Test", "error">>])

\* C9: with rethrowErrors false (trackInvocation left at its default and a
\* valid retry count), a wrapped call whose fn rejected has sent the
\* invocation event and then the failure event, each at least once and
\* exactly once on a healthy endpoint, no success event, and has resolved
\* to undefined.
C9_NoRethrowResolvesUndefined ==
  (WrapDone /\ OptionOff("rethrowErrors") /\ fnRes.kind = "rejected") =>
    /\ wres = Resolved(<<>>)
    /\ (~OptionOff("trackInvocation") /\ maxRetries >= 0) =>
         /\ \E k \in 1..(Len(fetchLog) - 1) :
              \A i \in 1..Len(fetchLog) :
                SentTypes[i] = IF i <= k THEN "invocation" ELSE "failure"
         /\ Healthy => SentTypes = <<"invocation", "failure">>

\* C9 witness: such a call on a healthy endpoint.
C9_Witness ==
  /\ WrapDone /\ options = [rethrowErrors |-> FALSE] /\ Healthy
  /\ fnRes.kind = "rejected"
  /\ SentTypes = <<"invocation", "failure">>
  /\ wres = Resolved(<<>>)

\* C10: with trackInvocation false a wrapped call never sends an invocation
\* event; on a healthy endpoint with a valid retry count it has made exactly
\* 1 delivery call when it settles: the success event when fn resolved, the
\* failure event when fn rejected.
C10_NoInvocationEvent ==
  (entry = "wrap" /\ OptionOff("trackInvocation")) =>
    /\ \A i \in 1..Len(fetchLog) : SentTypes[i] # "invocation"
    /\ (WrapDone /\ Healthy /\ maxRetries >= 0) =>
         SentTypes = IF fnRes.kind = "resolved" THEN <<"success">> ELSE <<"failure">>

\* C10 witness: a failing fn wrapped with trackInvocation false, whose only
\* delivery call carried the failure event.
C10_Witness ==
  /\ WrapDone /\ options = [trackInvocation |-> FALSE] /\ Healthy
  /\ fnRes.kind = "rejected"
  /\ SentTypes = <<"failure">>

\* The metadata of a success or failure event whose own extractor gave
\* nothing: the invocation metadata alone ({} when there is none either).
InvocationFragmentOnly == IF invocationMetadata = <<>> THEN <<>> ELSE invocationMetadata[1]

\* The payloads sent so far that carry the given event type.
SentPayloads(eventType) ==
  {fetchLog[i].payload : i \in {j \in 1..Len(fetchLog) : fetchLog[j].payload.event_type = eventType}}

\* C11: each extractor is isolated on its own.  When getMetadata threw, the
\* invocation metadata is undefined and every invocation event goes out
\* without a metadata field; when getOutputMetadata (getErrorMetadata) threw,
\* every success (failure) event carries the invocation metadata alone.
\* Whatever the extractors did, a settled wrapped call has run fn exactly
\* once, its caller sees fn's outcome and never an extractor's exception,
\* and (retry count >= 0) the invocation event was sent when it is enabled
\* and the outcome event sent is the one matching fn's outcome, never the
\* other one.
C11_ExtractorIsolation ==
  entry = "wrap" =>
    /\ "getMetadata" \in extractorErrors =>
         /\ invocationMetadata = <<>>
         /\ \A p \in SentPayloads("invocation") : "metadata" \notin DOMAIN p
    /\ "getOutputMetadata" \in extractorErrors =>
         /\ fnRes.kind = "resolved"
         /\ \A p \in SentPayloads("success") : p.metadata = InvocationFragmentOnly
    /\ "getErrorMetadata" \in extractorErrors =>
         /\ fnRes.kind = "rejected"
         /\ \A p \in SentPayloads("failure") : p.metadata = InvocationFragmentOnly
    /\ WrapDone =>
         /\ fnCalls = 1
         /\ wres = C6_Expected
         /\ maxRetries >= 0 =>
              /\ ~OptionOff("trackInvocation") => SentPayloads("invocation") # {}
              /\ fnRes.kind = "resolved" => SentPayloads("success") # {} /\ SentPayloads("failure") = {}
              /\ fnRes.kind = "rejected" => SentPayloads("failure") # {} /\ SentPayloads("success") = {}

\* C11 witness: getMetadata and getErrorMetadata both threw; fn ran and
\* rejected, the invocation and the failure event were each delivered, the
\* failure event with the empty metadata, and the caller got fn's error.
C11_Witness ==
  /\ WrapDone /\ options = <<>> /\ Healthy
  /\ extractorErrors = {"getMetadata", "getErrorMetadata"}
  /\ fnCalls = 1
  /\ fnRes.kind = "rejected"
  /\ SentTypes = <<"invocation", "failure">>
  /\ fetchLog[2].payload.metadata = <<>>
  /\ wres = Rejected(fnRes.error)

\* A delivery attempt of an event of the given type is made in this step.
AttemptOf(eventType) ==
  /\ Len(fetchLog') = Len(fetchLog) + 1
  /\ fetchLog'[Len(fetchLog')].payload.event_type = eventType

\* A backoff delay of an event of the given type is being waited.
BackoffOf(eventType) ==
  /\ xpc = "sleep"
  /\ payload # <<>>
  /\ payload[1].event_type = eventType

\* C12: in a wrapped call with invocation tracking enabled, the step that
\* calls fn is taken only when the invocation tracking has completed:
\* execute has returned or thrown (no attempt and no backoff delay is left)
\* and track has settled.  No delivery attempt of the invocation event is
\* made, and no backoff delay of it is waited, once fn has been called.
C12_InvocationCompletesBeforeFn ==
  [][(entry = "wrap" /\ ~OptionOff("trackInvocation")) =>
       /\ fnCalls' # fnCalls =>
            /\ wpc = "invocation"
            /\ tpc = "done" /\ tres.kind = "resolved"
            /\ xpc = "done" /\ xres.kind \in {"returned", "threw"}
            /\ xres.kind = "returned" => fetchLog[Len(fetchLog)].ok
            /\ (xres.kind = "threw" /\ maxRetries >= 0) => calls = maxRetries + 1 \/ retryable = <<FALSE>>
       /\ (AttemptOf("invocation") \/ BackoffOf("invocation")) =>
            fnCalls = 0 /\ fnCalls' = 0 /\ fnRes.kind = "pending"]_vars

\* C12 witness: fn is running after an invocation tracking that ended in
\* failure: three attempts were made and both backoff delays were waited.
C12_Witness ==
  /\ entry = "wrap" /\ options = <<>>
  /\ wpc = "fn" /\ fnCalls = 1
  /\ maxRetries = 2
  /\ SentTypes = <<"invocation", "invocation", "invocation">>
  /\ \A i \in 1..3 : ~fetchLog[i].ok
  /\ now >= StartClock + 100 + 200

\* The tracking call in flight has completed: execute has returned or
\* thrown, having used up its attempts unless it stopped early, and track
\* has settled.
TrackingCompleted ==
  /\ tpc = "done" /\ tres.kind = "resolved"
  /\ xpc = "done" /\ xres.kind \in {"returned", "threw"}
  /\ xres.kind = "returned" => fetchLog[Len(fetchLog)].ok
  /\ (xres.kind = "threw" /\ maxRetries >= 0) => calls = maxRetries + 1 \/ retryable = <<FALSE>>

\* C13: in a wrapped call a delivery attempt of a success or failure event
\* is made only after fn has settled (a success event after fn resolved, a
\* failure event after fn rejected), and the step that settles the wrapped
\* call, by returning fn's result, rethrowing or resolving to undefined, is
\* taken only when the success or failure tracking has completed.
C13_OutcomeTrackingAfterFnBeforeReturn ==
  [][entry = "wrap" =>
       /\ AttemptOf("success") =>
            fnCalls = 1 /\ fnRes.kind = "resolved" /\ wpc = "success" /\ wres.kind = "pending"
       /\ AttemptOf("failure") =>
            fnCalls = 1 /\ fnRes.kind = "rejected" /\ wpc = "failure" /\ wres.kind = "pending"
       /\ wres' # wres =>
            /\ wres.kind = "pending"
            /\ wpc \in {"success", "failure"}
            /\ payload[1].event_type = wpc
            /\ TrackingCompleted]_vars

\* C13 witness: a wrapped call that rejected with fn's error after a failure
\* tracking of three failed attempts.
C13_Witness ==
  /\ WrapDone /\ options = <<>>
  /\ maxRetries = 2
  /\ SentTypes = <<"invocation", "failure", "failure", "failure">>
  /\ \A i \in 2..4 : ~fetchLog[i].ok
  /\ wres = Rejected(fnRes.error)

\* ------------------------------------ more claims on the retry engine

\* C15: a step in which the operation's call succeeds is the step in which
\* execute returns: that call's value unchanged, no delay scheduled.  Once
\* execute has returned it makes no further attempt and waits no delay.
\* With k failed attempts before it (each retryable, each followed by its
\* delay), the successful attempt is call number k + 1 <= maxRetries + 1.
C15_ReturnsOnFirstSuccess ==
  /\ [](xres.kind = "returned" =>
          /\ xpc = "done"
          /\ opRes = [kind |-> "ok", value |-> xres.value]
          /\ calls = attempt + 1
          /\ calls <= maxRetries + 1
          /\ Len(delays) = attempt
          /\ attempt > 0 => retryable = <<TRUE>>)
  /\ [][/\ (calls' # calls /\ opRes'.kind = "ok") =>
             /\ calls' = calls + 1
             /\ xres' = Returned(opRes'.value)
             /\ xpc' = "done"
             /\ delays' = delays
        /\ (calls' # calls /\ opRes'.kind = "error") =>
             /\ xres'.kind # "returned"
             /\ lastError' = <<opRes'.error>>
        /\ xres.kind = "returned" =>
             calls' = calls /\ delays' = delays /\ xres' = xres /\ now' = now]_vars

\* C15 witness: the first two attempts failed with retryable errors, the
\* third succeeded, and execute returned its value after 3 invocations and
\* 2 delays, with retries left.
C15_Witness ==
  /\ entry = "execute"
  /\ maxRetries = 4
  /\ calls = 3
  /\ delays = <<100, 200>>
  /\ lastError # <<>>
  /\ xres = Returned("result")

\* ---------------------------------------------- claims on the payload

\* The fields C16 requires of a payload built from the given optional
\* metadata and optional duration.
C16_Fields(metadata, durationMs) ==
  {"tool_name", "event_type"}
    \cup (IF durationMs # <<>> THEN {"duration_ms"} ELSE {})
    \cup (IF metadata # <<>> THEN {"metadata"} ELSE {})

\* The duration a direct call supplies: trackInvocation passes none on.
C16_DirectDuration == IF entry = "trackInvocation" THEN <<>> ELSE args.durationMs

\* C16: the payload track builds has tool_name and event_type, has
\* duration_ms exactly when a duration was supplied (0 included) and then
\* with that value, has metadata exactly when metadata was supplied (the
\* empty object included) and then with that value, and has no other field;
\* each attempt sends that payload.  In a direct call the caller's arguments
\* are what is supplied; in a wrapped call the invocation event is supplied
\* the invocation metadata and no duration, and a success or failure event
\* is supplied both a metadata and a duration.
C16_PayloadFields ==
  payload # <<>> =>
    /\ payload[1].tool_name = "test_tool"
    /\ calls > 0 => fetchLog[Len(fetchLog)].payload = payload[1]
    /\ entry # "wrap" =>
         /\ DOMAIN payload[1] = C16_Fields(args.metadata, C16_DirectDuration)
         /\ payload[1].event_type = args.eventType
         /\ C16_DirectDuration # <<>> => payload[1].duration_ms = C16_DirectDuration[1]
         /\ args.metadata # <<>> => payload[1].metadata = args.metadata[1]
    /\ (entry = "wrap" /\ payload[1].event_type = "invocation") =>
         /\ DOMAIN payload[1] = C16_Fields(invocationMetadata, <<>>)
         /\ invocationMetadata # <<>> => payload[1].metadata = invocationMetadata[1]
    /\ (entry = "wrap" /\ payload[1].event_type # "invocation") =>
         DOMAIN payload[1] = {"tool_name", "event_type", "duration_ms", "metadata"}

\* C16 witness: track called with a duration of 0 and no metadata has sent
\* a payload with duration_ms 0 and without a metadata field.
C16_Witness ==
  /\ entry = "track"
  /\ args.metadata = <<>> /\ args.durationMs = <<0>>
  /\ payload = <<[tool_name |-> "test_tool", event_type |-> args.eventType, duration_ms |-> 0]>>
  /\ calls > 0

\* -------------------------------------------- claims on mergeMetadata

\* The positions of the defined fragments that have the key.
FragmentsWith(k) ==
  {i \in 1..Len(fragments) : fragments[i] # <<>> /\ k \in DOMAIN fragments[i][1]}

\* The largest element of a non-empty set of numbers.
Last(S) == CHOOSE i \in S : \A j \in S : j <= i

Fragment(extractor) == IF extractor \in DOMAIN extracted THEN extracted[extractor] ELSE <<>>

\* The union of two fragments in which the second one's keys win.
C18_Union(first, second) ==
  [k \in DOMAIN first \cup DOMAIN second |-> IF k \in DOMAIN second THEN second[k] ELSE first[k]]

\* C18: in a wrapped call every invocation event sent carries exactly what
\* getMetadata returned (no metadata field when it returned nothing); every
\* success event carries the union of what getMetadata and getOutputMetadata
\* returned, the output's value on a common key; every failure event the
\* union of what getMetadata and getErrorMetadata returned, the error
\* metadata's value on a common key.
C18_EventMetadata ==
  entry = "wrap" =>
    /\ \A p \in SentPayloads("invocation") :
         IF "getMetadata" \in DOMAIN extracted
           THEN p.metadata = extracted["getMetadata"]
           ELSE "metadata" \notin DOMAIN p
    /\ \A p \in SentPayloads("success") :
         p.metadata = C18_Union(Fragment("getMetadata"), Fragment("getOutputMetadata"))
    /\ \A p \in SentPayloads("failure") :
         p.metadata = C18_Union(Fragment("getMetadata"), Fragment("getErrorMetadata"))
    /\ invocationMetadata = (IF "getMetadata" \in DOMAIN extracted THEN <<extracted["getMetadata"]>> ELSE <<>>)

\* C18 witness: getMetadata returned {a: 1, b: 2} and getErrorMetadata
\* {b: 5, e: 6}; the invocation event carried the former and the failure
\* event {a: 1, b: 5, e: 6}.
C18_Witness ==
  /\ WrapDone /\ Healthy
  /\ SentTypes = <<"invocation", "failure">>
  /\ extracted = [getMetadata |-> [a |-> 1, b |-> 2], getErrorMetadata |-> [b |-> 5, e |-> 6]]
  /\ fetchLog[1].payload.metadata = [a |-> 1, b |-> 2]
  /\ fetchLog[2].payload.metadata = [a |-> 1, b |-> 5, e |-> 6]

C14_TimeoutError ==
  [name |-> "Error", message |-> <<"Request", "timeout", "after", ToString(config.timeout) \o "ms">>]

\* C14: a step in which the timeout timer fires (config.timeout ms after
\* the request was issued) ends the attempt with the timeout error, whose
\* message states the configured timeout; execute classifies it retryable,
\* so it waits for another attempt unless this was attempt number
\* retries + 1, and then it throws that error.  Hence a send whose every
\* attempt timed out has made exactly retries + 1 attempts when it ends.
C14_TimeoutIsRetryable ==
  /\ []((config # <<>> /\ maxRetries >= 0 /\ calls > 0 /\ aborts = calls) =>
         /\ lastError = <<C14_TimeoutError>>
         /\ retryable = <<TRUE>>
         /\ xpc = "done" => calls = maxRetries + 1 /\ xres = Threw(C14_TimeoutError))
  /\ [][aborts' # aborts =>
           /\ aborts' = aborts + 1
           /\ calls' = calls + 1
           /\ now' = now + config.timeout
           /\ lastError' = <<C14_TimeoutError>>
           /\ retryable' = <<TRUE>>
           /\ ~fetchLog'[Len(fetchLog')].ok
           /\ attempt < maxRetries => xpc' = "sleep" /\ xres' = Pending
           /\ attempt = maxRetries => xpc' = "done" /\ xres' = Threw(C14_TimeoutError)]_vars

\* C14 witness: a tracker configured with timeout 1000 and retries 1 whose
\* two attempts both timed out; track resolved with the timeout error.
C14_Witness ==
  /\ config # <<>>
  /\ config.timeout = 1000
  /\ maxRetries = 1
  /\ calls = 2 /\ aborts = 2
  /\ tpc = "done"
  /\ tres = Resolved([success |-> FALSE,
                      error |-> [name |-> "Error", message |-> <<"Request", "timeout", "after", "1000ms">>]])

\* ------------------------------------------- claims on the configuration

\* The value C20 requires of a field of the resolved config: the supplied
\* one when the field was supplied, its default otherwise.
C20_Filled(field, default) == IF field \in DOMAIN supplied THEN supplied[field] ELSE default

\* C20 (as claimed): the resolved config has the supplied apiKey, and for
\* endpoint, timeout, retries and debug the supplied value when one was
\* supplied, whatever it is, and otherwise the production URL, 5000, 3 and
\* false.
C20_SuppliedValuesKept ==
  config # <<>> =>
    config = [apiKey |-> supplied.apiKey,
              endpoint |-> C20_Filled("endpoint", DEFAULT_ENDPOINT),
              timeout |-> C20_Filled("timeout", 5000),
              retries |-> C20_Filled("retries", 3),
              debug |-> C20_Filled("debug", FALSE)]

\* C20 (amended): as claimed for apiKey, timeout, retries and debug
\* (timeout = 0, retries = 0 and debug = false are kept); the endpoint is
\* the supplied one when it is a non-empty string, and the production URL
\* when it was omitted or is the empty string.  The RetryHandler gets the
\* resolved retries.
C20_DefaultsFilledIn ==
  config # <<>> =>
    /\ config = [apiKey |-> supplied.apiKey,
                 endpoint |-> IF C20_Filled("endpoint", "") = "" THEN DEFAULT_ENDPOINT ELSE supplied.endpoint,
                 timeout |-> C20_Filled("timeout", 5000),
                 retries |-> C20_Filled("retries", 3),
                 debug |-> C20_Filled("debug", FALSE)]
    /\ maxRetries = config.retries

\* C20 witness: a tracker constructed from {apiKey, timeout: 0, retries: 0,
\* debug: false} has these three values, not the defaults, and the
\* production URL.
C20_Witness ==
  /\ supplied = [apiKey |-> "test-key", timeout |-> 0, retries |-> 0, debug |-> FALSE]
  /\ config = [apiKey |-> "test-key", endpoint |-> DEFAULT_ENDPOINT,
               timeout |-> 0, retries |-> 0, debug |-> FALSE]
  /\ maxRetries = 0

\* ------------------------------------ claims on the convenience methods

\* The event type a convenience method stands for.
C21_EventType ==
  CASE entry = "trackInvocation" -> "invocation"
    [] entry = "trackSuccess" -> "success"
    [] entry = "trackFailure" -> "failure"

\* The payload track builds when called with the convenience method's
\* arguments and its event type (trackInvocation takes no duration).
C21_TrackPayload ==
  BuildPayload(args.toolName, C21_EventType, args.metadata,
               IF entry = "trackInvocation" THEN <<>> ELSE args.durationMs)

\* C21: a call of trackInvocation(t, m), trackSuccess(t, m, d) or
\* trackFailure(t, m, d) is in every state where track(t, <its type>, m, d)
\* would be: its payload is the one track builds from these arguments, every
\* attempt made sends that payload, at most retries + 1 attempts are made,
\* and its result is track's result for the way the delivery ended.
C21_ConvenienceIsTrack ==
  (entry \in {"trackInvocation", "trackSuccess", "trackFailure"} /\ payload # <<>>) =>
    /\ payload = <<C21_TrackPayload>>
    /\ \A i \in 1..Len(fetchLog) : fetchLog[i].payload = C21_TrackPayload
    /\ Len(fetchLog) = calls
    /\ maxRetries >= 0 => calls <= maxRetries + 1
    /\ tpc = "done" =>
         tres = IF xres.kind = "returned" THEN Resolved([success |-> TRUE])
                ELSE Resolved([success |-> FALSE, error |-> xres.error])

\* C21 witness: trackFailure(t, {foo: 'bar'}, 0) delivered, at its second
\* attempt, the payload of track(t, 'failure', {foo: 'bar'}, 0) and resolved
\* to {success: true}.
C21_Witness ==
  /\ entry = "trackFailure"
  /\ args.metadata = <<[foo |-> "bar"]>> /\ args.durationMs = <<0>>
  /\ payload = <<[tool_name |-> "test_tool", event_type |-> "failure",
                  duration_ms |-> 0, metadata |-> [foo |-> "bar"]]>>
  /\ calls = 2
  /\ tpc = "done"
  /\ tres = Resolved([success |-> TRUE])

\* ------------------------------------------ claims on concurrent calls

\* The i-th attempt of the call with locals f has finished: a later attempt
\* exists, or the call is between attempts or done.
AttemptFinished(f, i) == i < Len(f.timers) \/ f.pc \in {"loop", "sleep", "done"}

\* C22: when a delivery attempt has finished, on any path, its timeout
\* timer is no longer pending; a timer fires only for the attempt in
\* progress whose fetch has not settled; and a request is aborted only by
\* the timer of its own attempt.
C22_TimerClearedOnEveryPath ==
  /\ [](\A c \in Calls : \A i \in 1..Len(frames[c].timers) :
          AttemptFinished(frames[c], i) => frames[c].timers[i] # "pending")
  /\ [][\A c \in Calls : \A i \in 1..Len(frames[c].timers) :
          /\ (frames[c].timers[i] # "fired" /\ frames'[c].timers[i] = "fired") =>
               (i = Len(frames[c].timers) /\ frames[c].pc = "fetch")
          /\ (frames[c].requests[i].state # "aborted" /\ frames'[c].requests[i].state = "aborted") =>
               (frames[c].timers[i] = "pending" /\ frames'[c].timers[i] = "fired")]_vars

C22_Witness ==
  /\ frames[1].pc = "done"
  /\ frames[1].timers = <<"fired", "cleared">>
  /\ frames[1].requests[1].state = "aborted"
  /\ frames[1].requests[2].state = "failed"
  /\ frames[2].pc = "fetch"
  /\ frames[2].timers = <<"cleared", "pending">>
  /\ frames[2].requests[1].state = "responded"

\* C23: when execute gives up because the retries are used up, the error it
\* throws is the error of the last attempt made, whatever the earlier
\* attempts failed with.
C23_ThrowsLastError ==
  \A c \in Calls :
    LET f == frames[c]
    IN (f.pc = "done" /\ f.res.kind = "threw" /\ f.outs # <<>>) =>
         /\ f.outs[Len(f.outs)].kind = "error"
         /\ f.res.error = f.outs[Len(f.outs)].error
         /\ f.lastError = <<f.res.error>>

C23_Witness ==
  LET f == frames[1]
  IN /\ f.pc = "done"
     /\ f.res.kind = "threw"
     /\ Len(f.outs) = TrackerConfig(1).retries + 1
     /\ Len(f.outs) = 2
     /\ f.outs[1].error.message = <<"Request", "timeout", "after", "1000ms">>
     /\ f.outs[2].error.name = "TypeError"
     /\ f.res.error = f.outs[2].error

\* C24: an attempt that got a non-2xx response always ends in an error that
\* carries the response's numeric status and a message that embeds it; when
\* the read of the body failed the body counts as empty and the status text
\* is used, so the failed read never takes the place of the HTTP error.
C24_HttpErrorKeepsStatus ==
  \A c \in Calls :
    LET f == frames[c]
    IN (f.pc \in {"sleep", "loop", "done"} /\ f.response # <<>> /\ ~ResponseOk(f.response[1])) =>
         LET out == f.outs[Len(f.outs)]
         IN /\ out.kind = "error"
            /\ out.error.name = "Error"
            /\ "status" \in DOMAIN out.error
            /\ out.error.status = f.response[1]
            /\ SubSeq(out.error.message, 1, 2) = <<"HTTP", ToString(f.response[1])>>
            /\ f.read.body \in {<<>>, << <<>> >>} =>
                 out.error.message = <<"HTTP", ToString(f.response[1])>> \o StatusText(f.response[1])
            /\ f.read.body \notin {<<>>, << <<>> >>} =>
                 out.error.message = <<"HTTP", ToString(f.response[1])>> \o f.read.body[1]

C24_Witness ==
  LET f == frames[2]
  IN /\ f.pc = "done"
     /\ f.response = <<400>>
     /\ f.read.body = <<>>
     /\ f.res = Threw([name |-> "Error", message |-> <<"HTTP", "400", "Bad", "Request">>, status |-> 400])

\* What execute has made of the attempts settled so far, stated from the
\* retry count, the timeout and what the network did, with no reference to
\* the debug flag: every attempt but the last failed with a retryable
\* error; the call is over exactly when the last one succeeded, failed with
\* an error that is not retryable, or was the last one allowed (with a
\* retry count below 0, after the loop test that fails at once); each
\* failure that was retried is followed by its backoff delay.
AloneOver(r, outs) ==
  \/ r < 0
  \/ /\ outs # <<>>
     /\ LET last == outs[Len(outs)]
        IN \/ last.kind = "ok"
           \/ ~isRetryableError(last.error)
           \/ Len(outs) = r + 1

AloneResult(r, outs) ==
  IF outs = <<>> THEN Threw([name |-> "Error", message |-> <<"Unexpected", "error", "in", "retry", "handler">>])
  ELSE IF outs[Len(outs)].kind = "ok" THEN Returned(outs[Len(outs)].value)
  ELSE Threw(outs[Len(outs)].error)

AloneDelays(r, outs) ==
  [i \in 1..(IF AloneOver(r, outs) /\ outs # <<>> THEN Len(outs) - 1 ELSE Len(outs)) |-> Min(100 * Pow2(i - 1), 3000)]

RunsAsAlone(f, r, timeout) ==
  /\ Len(f.nets) = Len(f.outs)
  /\ \A i \in 1..Len(f.outs) : f.outs[i] = SendEventOp(f.nets[i], timeout)
  /\ \A i \in 1..(Len(f.outs) - 1) : f.outs[i].kind = "error" /\ isRetryableError(f.outs[i].error)
  /\ Len(f.outs) <= r + 1
  /\ f.calls = Len(f.outs) + (IF f.pc \in {"fetch", "text", "json"} THEN 1 ELSE 0)
  /\ f.calls = Len(f.requests)
  /\ (f.pc = "done") = (AloneOver(r, f.outs) /\ ~(r < 0 /\ f.pc = "loop"))
  /\ f.res = IF f.pc = "done" THEN AloneResult(r, f.outs) ELSE Pending
  /\ f.delays = AloneDelays(r, f.outs)

\* C25: the debug flag is observational only. With debug on or off, the
\* attempts made, the delays waited and the result or error of every call
\* are the same function of the retry count, the timeout and what the
\* network did in each attempt; the flag only decides whether lines are
\* written to the console.
C25_DebugIsObservational ==
  /\ \A c \in Calls :
       RunsAsAlone(frames[c], trackers[frames[c].tracker].retries, trackers[frames[c].tracker].timeout)
  /\ (\A t \in Trackers : ~trackers[t].debug) => logged = 0

C25_Witness ==
  /\ trackers[1].debug
  /\ logged = 5
  /\ frames[1].pc = "done"
  /\ frames[1].nets = <<[kind |-> "abort"], [kind |-> "response", status |-> 200, json |-> <<[ok |-> TRUE]>>]>>
  /\ frames[1].delays = <<100>>
  /\ frames[1].res = Returned([ok |-> TRUE])
  /\ frames[2].calls = 0

\* C26: the configuration is fixed at construction. No step changes a
\* tracker's resolved configuration, not even the caller assigning new
\* values to the object it handed in; and every attempt of a call uses the
\* endpoint, api key, timeout and retry count of the tracker it was made
\* on, so two instances with different configurations each use their own.
C26_ConfigFixedAtConstruction ==
  /\ [][trackers' = trackers]_vars
  /\ [](/\ trackers[1].apiKey = "key-1"
        /\ trackers[1].endpoint = DEFAULT_ENDPOINT
        /\ trackers[1].timeout = 1000
        /\ trackers[2] = [apiKey |-> "key-2", endpoint |-> "https://custom.example/track",
                          timeout |-> Timeout, retries |-> 0, debug |-> FALSE]
        /\ \A c \in Calls :
             LET f == frames[c]
                 own == trackers[f.tracker]
             IN /\ \A i \in 1..Len(f.requests) :
                     f.requests[i].endpoint = own.endpoint /\ f.requests[i].apiKey = own.apiKey
                /\ \A i \in 1..Len(f.nets) :
                     f.nets[i].kind = "abort" =>
                       f.outs[i].error.message = <<"Request", "timeout", "after", ToString(own.timeout) \o "ms">>
                /\ f.calls <= (IF own.retries < 0 THEN 0 ELSE own.retries + 1)
                /\ (f.pc = "sleep") => Len(f.outs) <= own.retries)

C26_Witness ==
  /\ callerConfigs[1] = ChangedConfig
  /\ trackers[1].retries = 1
  /\ frames[1].pc = "done"
  /\ frames[1].calls = 2
  /\ frames[1].requests[2].apiKey = "key-1"
  /\ frames[1].nets[2].kind = "abort"
  /\ frames[1].outs[2].error.message = <<"Request", "timeout", "after", "1000ms">>
  /\ frames[2].tracker = 2
  /\ frames[2].pc = "done"
  /\ frames[2].calls = 1
  /\ frames[2].requests[1].apiKey = "key-2"
  /\ frames[2].requests[1].endpoint = "https://custom.example/track"
  /\ frames[2].nets[1].kind = "abort"
  /\ frames[2].outs[1].error.message = <<"Request", "timeout", "after", "5000ms">>

\* C27: concurrent calls on one tracker do not interfere. Every step
\* changes the locals of one call only; each call counts its own attempts,
\* follows its own backoff schedule and has at most one pending timer, the
\* one of its attempt in progress; each event is attempted at most
\* retries + 1 times; and the result of each call is the one it would get
\* running alone with the network outcomes it met.
C27_CallsDoNotInterfere ==
  /\ [][\E c \in Calls : \A d \in Calls \ {c} : frames'[d] = frames[d]]_vars
  /\ [](\A c \in Calls :
          LET f == frames[c]
              r == trackers[f.tracker].retries
          IN /\ f.calls <= (IF r < 0 THEN 0 ELSE r + 1)
             /\ f.attempt = Len(f.delays) - (IF f.pc = "sleep" THEN 1 ELSE 0)
             /\ f.attempt = f.calls - (IF f.pc = "loop" THEN 0 ELSE 1) \/ f.calls = 0
             /\ f.delays = AloneDelays(r, f.outs)
             /\ Len(f.timers) = f.calls
             /\ \A i \in 1..Len(f.timers) : f.timers[i] = "pending" => (i = f.calls /\ f.pc = "fetch")
             /\ f.pc = "done" => f.res = AloneResult(r, f.outs))

C27_Witness ==
  /\ frames[2].tracker = 1
  /\ trackers[1].retries = 1
  /\ frames[1].pc = "sleep"
  /\ frames[1].attempt = 0
  /\ frames[1].nets = <<[kind |-> "network"]>>
  /\ frames[2].pc = "done"
  /\ frames[2].attempt = 1
  /\ frames[2].nets = <<[kind |-> "abort"], [kind |-> "response", status |-> 500, body |-> <<>>]>>
  /\ frames[2].delays = <<100>>
  /\ frames[2].res = Threw([name |-> "Error", message |-> <<"HTTP", "500", "Internal", "Server", "Error">>, status |-> 500])

\* ------------------------------------------ more claims on the tracker

\* C28: a wrapped call invokes fn exactly once, with the (params, meta) it
\* was called with itself: never before the invocation tracking is over,
\* never a second time, and a finished call has invoked it, whatever the
\* options, the extractors, the delivery and fn itself did.
C28_FnInvokedOnceWithOriginalArgs ==
  /\ entry = "wrap" => /\ fnCalls = Len(fnArgs)
                       /\ fnCalls <= 1
                       /\ \A i \in 1..Len(fnArgs) : fnArgs[i] = <<wargs.params, wargs.meta>>
                       /\ fnCalls = 1 <=> wpc \in {"fn", "success", "failure", "done"}
  /\ WrapDone => fnArgs = << <<wargs.params, wargs.meta>> >>

C28_Witness ==
  /\ WrapDone
  /\ wres.kind = "rejected"
  /\ extractorErrors = {"getMetadata", "getErrorMetadata"}
  /\ \A i \in 1..Len(fetchLog) : ~fetchLog[i].ok
  /\ fnArgs = << <<[input |-> "test"], <<[requestId |-> "r1"]>> >> >>

C30_DurationFromStartToSettle ==
  entry = "wrap" =>
    /\ wpc # "start" => startTime = StartClock
    /\ fnRes.kind # "pending" => settledAt >= StartClock + 50 /\ settledAt <= now
    /\ \A i \in 1..Len(fetchLog) :
         fetchLog[i].payload.event_type \in {"success", "failure"} =>
           fetchLog[i].payload.duration_ms = settledAt - StartClock
    /\ (wpc \in {"success", "failure"} /\ payload # <<>>) =>
         payload[1].duration_ms = settledAt - StartClock

C30_Witness ==
  /\ WrapDone
  /\ DOMAIN extracted = {"getMetadata", "getOutputMetadata"}
  /\ Len(fetchLog) = 4
  /\ aborts = 2
  /\ ~fetchLog[1].ok /\ fetchLog[2].ok /\ ~fetchLog[3].ok /\ fetchLog[4].ok
  /\ fetchLog[4].payload.event_type = "success"
  /\ fetchLog[4].payload.duration_ms = 5 + Timeout + 100 + 50
  /\ now = StartClock + (5 + Timeout + 100 + 50) + 5 + Timeout + 100

\* C37: track's success flag depends only on whether sendEvent returned.
\* When the last attempt got a 2xx response with a parseable body, track
\* resolves to {success: true}, whether the acknowledgement says ok: true
\* or ok: false; the flag is false exactly when sendEvent threw.
C37_SuccessFlagIgnoresAck ==
  tpc = "done" =>
    /\ opRes.kind = "ok" => /\ xres = Returned(opRes.value)
                            /\ opRes.value \in {[ok |-> TRUE], [ok |-> FALSE]}
                            /\ tres = Resolved([success |-> TRUE])
    /\ tres.value.success <=> xres.kind = "returned"

C37_Witness ==
  /\ entry = "track"
  /\ tpc = "done"
  /\ fetchLog # <<>>
  /\ xres = Returned([ok |-> FALSE])
  /\ tres = Resolved([success |-> TRUE])

\* C38: in a wrapped call every success and failure event carries a
\* metadata field, the empty object when no extractor gave a fragment; an
\* invocation event carries one only when getMetadata returned a value.
C38_OutcomeEventsAlwaysCarryMetadata ==
  entry = "wrap" =>
    \A p \in {fetchLog[i].payload : i \in 1..Len(fetchLog)} \cup {payload[i] : i \in 1..Len(payload)} :
      IF p.event_type = "invocation"
        THEN ("metadata" \in DOMAIN p) <=> ("getMetadata" \in DOMAIN extracted)
        ELSE /\ "metadata" \in DOMAIN p
             /\ DOMAIN extracted = {} => p.metadata = <<>>

C38_Witness ==
  /\ WrapDone
  /\ DOMAIN extracted = {}
  /\ \E p \in SentPayloads("invocation") : "metadata" \notin DOMAIN p
  /\ \E p \in SentPayloads("failure") : p.metadata = <<>>

\* The delivery attempts made so far for events of the given type.
AttemptsFor(eventType) ==
  Cardinality({i \in 1..Len(fetchLog) : fetchLog[i].payload.event_type = eventType})

OutcomesTracked == SelectSeq(tracked, LAMBDA t : t # "invocation")

\* C32: every wrapped call emits exactly one outcome event, the one that
\* matches fn's outcome.  None is tracked before fn has settled; from then
\* on exactly one is, success when fn resolved and failure when it
\* rejected, whatever the extractors and the delivery did; no delivery
\* attempt carries the other type, and with a retry count of 0 or more a
\* finished call has sent its outcome event at least once.
C32_ExactlyOneOutcomeEvent ==
  entry = "wrap" =>
    /\ wpc \in {"start", "invocation", "fn"} => OutcomesTracked = <<>> /\ fnRes.kind = "pending"
    /\ wpc \in {"success", "failure", "done"} =>
         /\ fnRes.kind \in {"resolved", "rejected"}
         /\ OutcomesTracked = <<IF fnRes.kind = "resolved" THEN "success" ELSE "failure">>
    /\ AttemptsFor("success") > 0 => fnRes.kind = "resolved"
    /\ AttemptsFor("failure") > 0 => fnRes.kind = "rejected"
    /\ (WrapDone /\ maxRetries >= 0) => AttemptsFor("success") + AttemptsFor("failure") >= 1
    /\ Len(SelectSeq(tracked, LAMBDA t : t = "invocation")) <= 1

C32_Witness ==
  /\ WrapDone
  /\ fnRes.kind = "resolved"
  /\ extractorErrors = {"getMetadata", "getOutputMetadata"}
  /\ tracked = <<"invocation", "success">>
  /\ \A i \in 1..Len(fetchLog) : ~fetchLog[i].ok
  /\ AttemptsFor("success") = 3
  /\ AttemptsFor("failure") = 0

\* -------------------------------- still more claims on the retry engine

\* C35: for every integer maxRetries, negative ones included, execute
\* invokes the operation at least once before it returns or throws, and an
\* error it throws is one the operation raised.
C35_OperationInvokedAtLeastOnce ==
  xpc = "done" =>
    /\ calls >= 1
    /\ xres.kind = "threw" => (opRes.kind = "error" /\ xres.error = opRes.error)

\* ------------------------------------- more claims on concurrent calls

\* C33: once an attempt of sendEvent has received a 2xx response, no
\* further delivery attempt is made for that event.
C33_NoAttemptAfter2xx ==
  \A c \in Calls :
    \A i \in 1..Len(frames[c].nets) :
      (frames[c].nets[i].kind = "response" /\ ResponseOk(frames[c].nets[i].status)) =>
        Len(frames[c].requests) = i

\* C34: every delivery attempt settles once its timeout timer is due,
\* whatever the server does.  An attempt that waits for a body the server
\* never finishes still has its timer pending, so that the timer ends it.
C34_StalledAttemptIsTimed ==
  \A c \in Calls :
    (frames[c].pc \in {"text", "json"} /\ frames[c].stalled) =>
      frames[c].timers[Len(frames[c].timers)] = "pending"

\* ------------------------------------------------- claims on termination

\* The call is over: track or the convenience method has settled, or the
\* wrapped function's promise has.
CallOver ==
  IF entry = "wrap" THEN wpc = "done" /\ wres.kind \in {"resolved", "rejected"}
                    ELSE tpc = "done" /\ tres.kind = "resolved"

\* No run of execute is left behind: the caller of execute goes on only
\* when execute has returned or thrown, and by then execute has made at most
\* maxRetries + 1 attempts and waited at most maxRetries times.
ExecuteEnded ==
  /\ tpc = "done" => xpc = "done" /\ xres.kind \in {"returned", "threw"}
  /\ wpc \in {"fn", "done"} => xpc = "idle" /\ tpc = "idle"
  /\ calls <= (IF maxRetries >= 0 THEN maxRetries + 1 ELSE 0)
  /\ Len(delays) <= (IF maxRetries >= 0 THEN maxRetries ELSE 0)

\* C31: when every attempt settles, every run of execute ends (it returns
\* or throws) after finitely many attempts and delays, and when fn settles
\* too, every call, wrapped or direct, eventually settles.
C31_EveryCallEventuallySettles == []ExecuteEnded /\ <>CallOver

C31_Witness ==
  /\ CallOver
  /\ entry = "wrap"
  /\ wres.kind = "rejected"
  /\ tracked = <<"invocation", "failure">>
  /\ AttemptsFor("invocation") = 2
  /\ AttemptsFor("failure") = 2
  /\ \A i \in 1..Len(fetchLog) : ~fetchLog[i].ok
  /\ now > StartClock
====
